---- MODULE Spec2Model ----
(***************************************************************************)
(* Handle registry and callback dispatcher of pjsua.py (class Lib and the  *)
(* wrapper classes Call, Account and Buddy).                               *)
(*                                                                         *)
(* The objects of each wrapper class are numbered 1, 2, ... in the order   *)
(* of their construction; 0 is Python's None.  A dictionary is a function  *)
(* whose DOMAIN is its key set.                                            *)
(* A SIP URI string is the tuple of the parts that parse_simple_uri reads  *)
(* out of it: <<scheme, user, host, port, transport>>.                     *)
(***************************************************************************)
EXTENDS Integers, Sequences, FiniteSets, TLC

VARIABLES
    call,           \* Lib.call          : call id  -> Call
    account,        \* Lib.account       : acc id   -> Account
    buddy,          \* Lib.buddy         : buddy id -> Buddy
    buddy_by_uri,   \* Lib.buddy_by_uri  : (user, host) -> Buddy
    obj,            \* per class, the fields of its wrapper objects
    nobj,           \* per class, the number of objects constructed so far
    destroyed,      \* <<class, object>> out of use: its destructor or its
                    \* deregistration ran, or its constructor raised
    op,             \* the last operation and its arguments
    ret,            \* what the last operation returned (<<>> is None)
    raised,         \* the exception the last operation raised, or "none"
    invoked,        \* handler methods the last operation invoked, in order
    hangups,        \* _pjsua.call_hangup requests the last operation issued
    latest,         \* history: per kind and id, the object registered last and
                    \* not yet passed to its kind's deregistration
    pc,             \* per thread, the statement it is about to execute
    loc,            \* per thread, the local values of the method it is in
    _lib,           \* the module's global _lib: a Lib object, or None
    libs,           \* per Lib object, how far it got: "none", "rejected",
                    \* "failed", "ok", "started", "destroyed", "deleted"
    _quit,          \* per Lib object, its attribute _quit
    _has_thread,    \* per Lib object, its attribute _has_thread
    engine,         \* whether the engine exists: "up" or "down"
    late_polls,     \* history: the polls, since the last destroy() began,
                    \* that the worker thread made at a moment when _lib
                    \* was None or a Lib with _quit set; a poll made while
                    \* _lib is a Lib with _quit unset is not counted
    error,          \* the fields of the Error the last method call raised
    requests        \* the _pjsua functions the last method call called

\* the library object and the engine
libvars == <<_lib, libs, _quit, _has_thread, engine, late_polls>>

\* what the single-threaded operations on wrapper objects leave alone
aux == <<pc, loc, _lib, libs, _quit, _has_thread, engine, late_polls,
        error, requests>>

\* the observation of the method calls on wrapper objects
opvars == <<error, requests>>

vars == <<call, account, buddy, buddy_by_uri, obj, nobj, destroyed,
          op, ret, raised, invoked, hangups, latest, pc, loc,
          _lib, libs, _quit, _has_thread, engine, late_polls,
          error, requests>>

registry == <<call, account, buddy, buddy_by_uri>>

----------------------------------------------------------------------------
\* Bounds of the model

MaxObj == 2         \* wrapper objects constructed in one behaviour

ObjIds == 1..MaxObj

\* wrapper objects of one class, where each class is bounded by itself
MaxPerKind == 1

\* handler objects of the application, numbered from 1; 0 stands for None
MaxHandler == 2

UserHandlers == 1..MaxHandler

\* Lib objects the application constructs, or tries to
MaxLib == 2

LibIds == 1..MaxLib

\* the iterations destroy() waits for the worker thread
MaxLoop == 400

\* the ids the engine hands out, in each of its three namespaces
Handles == {0, 1}

----------------------------------------------------------------------------
\* Values

None == 0

\* PJSUA_INVALID_ID, the "no call" value of a call id
NoCall == -1

\* PJSUA_INVALID_ID as the buddy id the message dispatchers look up
NoBuddy == -1

\* the status code of Call.hangup() and of the dispatcher's own rejections
SC_DECLINE == 603

\* values the engine suggests to the response-bearing call notifications:
\* a status code, a continue flag, a (code, reason) pair
TransferCodes == {202, 603}
ContFlags == {0, 1}
ReplaceResponses == {<<200, "OK">>, <<603, "Decline">>}

URIs == { <<"sip", "alice", "example.com", "", "">>,
          <<"sip", "alice", "example.com", "5060", "tcp">>,
          <<"sip", "bob", "example.com", "", "">> }

NoUri == <<>>

Kinds == {"call", "account", "buddy"}

\* engine status codes: 0 is success
ErrCodes == {0, 1}

NoObj == [id |-> NoCall, cb |-> <<"none", 0>>, uri |-> NoUri]

\* the application's thread and the thread the engine's callbacks run on
Threads == {"app", "worker"}

\* the locals of a method in progress: its object or id argument and the
\* value it has read from the dictionary
NoLocals == [arg |-> -1, val |-> 0]

\* no Error: the class attributes of Error, with no operation named
NoError == [op_name |-> "", obj |-> <<"none", 0>>, err_code |-> -1]

NoOp == [name |-> "none", call_id |-> NoCall, acc_id |-> NoCall,
         buddy_id |-> NoCall, o |-> None, uri |-> NoUri, arg |-> <<>>]

----------------------------------------------------------------------------
\* Python dictionaries

has_key(d, k) == k \in DOMAIN d

setitem(d, k, v) == [x \in (DOMAIN d) \cup {k} |-> IF x = k THEN v ELSE d[x]]

delitem(d, k) == [x \in (DOMAIN d) \ {k} |-> d[x]]

EmptyDict == [x \in {} |-> None]

\* x and y or None, for a membership test x and a wrapper object y
AndOrNone(x, y) == IF x /\ y # None THEN y ELSE None

----------------------------------------------------------------------------
\* SIP URIs

\* _pjsua.parse_simple_uri: (scheme, user, host, port, transport)
parse_simple_uri(uri) == <<uri[1], uri[2], uri[3], uri[4], uri[5]>>

\* SIPUri(uri): the fields keep their class defaults for an empty uri
SIPUri(uri) ==
    IF uri # NoUri
    THEN [scheme |-> parse_simple_uri(uri)[1], user |-> parse_simple_uri(uri)[2],
          host |-> parse_simple_uri(uri)[3], port |-> parse_simple_uri(uri)[4],
          transport |-> parse_simple_uri(uri)[5]]
    ELSE [scheme |-> "", user |-> "", host |-> "", port |-> "",
          transport |-> ""]

\* the key of Lib.buddy_by_uri: (uri.user, uri.host)
UriKey(uri) == <<SIPUri(uri).user, SIPUri(uri).host>>

----------------------------------------------------------------------------
\* Lookups

lookup_call(call_id) ==
    AndOrNone(has_key(call, call_id),
              IF has_key(call, call_id) THEN call[call_id] ELSE None)

\* a lookup of accounts that falls back on the dictionary of calls
lookup_account_any(acc_id) ==
    IF has_key(account, acc_id) THEN account[acc_id]
    ELSE IF has_key(call, acc_id) THEN call[acc_id] ELSE None

lookup_account(acc_id) ==
    AndOrNone(has_key(account, acc_id),
              IF has_key(account, acc_id) THEN account[acc_id] ELSE None)

lookup_buddy(buddy_id, uri) ==
    LET b == AndOrNone(has_key(buddy, buddy_id),
                       IF has_key(buddy, buddy_id) THEN buddy[buddy_id]
                       ELSE None)
    IN  IF uri # NoUri /\ b = None
        THEN AndOrNone(has_key(buddy_by_uri, UriKey(uri)),
                       IF has_key(buddy_by_uri, UriKey(uri))
                       THEN buddy_by_uri[UriKey(uri)] ELSE None)
        ELSE b

----------------------------------------------------------------------------
\* Initial state: the module just loaded, no Lib constructed, and the
\* class-level dictionaries of Lib empty

Init ==
    /\ call = EmptyDict
    /\ account = EmptyDict
    /\ buddy = EmptyDict
    /\ buddy_by_uri = EmptyDict
    /\ obj = [k \in Kinds |-> [o \in ObjIds |-> NoObj]]
    /\ nobj = [k \in Kinds |-> 0]
    /\ destroyed = {}
    /\ op = NoOp
    /\ ret = <<>>
    /\ raised = "none"
    /\ invoked = <<>>
    /\ hangups = <<>>
    /\ latest = [k \in Kinds |-> EmptyDict]
    /\ pc = [t \in Threads |-> "idle"]
    /\ loc = [t \in Threads |-> NoLocals]
    /\ _lib = None
    /\ libs = [l \in LibIds |-> "none"]
    /\ _quit = [l \in LibIds |-> 0]
    /\ _has_thread = [l \in LibIds |-> FALSE]
    /\ engine = "down"
    /\ late_polls = 0
    /\ error = NoError
    /\ requests = <<>>

\* The state once lib = Lib() has returned: _pjsua.create() gave status 0,
\* the global _lib is the new object and the engine exists.  Wrapper
\* objects are constructed with a Lib object, and the engine calls the
\* module's _cb_on_* functions only for a Lib it was created by
InitLib ==
    /\ call = EmptyDict
    /\ account = EmptyDict
    /\ buddy = EmptyDict
    /\ buddy_by_uri = EmptyDict
    /\ obj = [k \in Kinds |-> [o \in ObjIds |-> NoObj]]
    /\ nobj = [k \in Kinds |-> 0]
    /\ destroyed = {}
    /\ op = [NoOp EXCEPT !.name = "Lib.__init__", !.o = 1, !.arg = <<1>>]
    /\ ret = <<>>
    /\ raised = "none"
    /\ invoked = <<>>
    /\ hangups = <<>>
    /\ latest = [k \in Kinds |-> EmptyDict]
    /\ pc = [t \in Threads |-> "idle"]
    /\ loc = [t \in Threads |-> NoLocals]
    /\ _lib = 1
    /\ libs = [l \in LibIds |-> IF l = 1 THEN "ok" ELSE "none"]
    /\ _quit = [l \in LibIds |-> 0]
    /\ _has_thread = [l \in LibIds |-> FALSE]
    /\ engine = "up"
    /\ late_polls = 0
    /\ error = NoError
    /\ requests = <<>>

----------------------------------------------------------------------------
\* Registration and deregistration

\* a registration that keeps an entry already present
associate_call_keep(call_id, c) ==
    IF has_key(call, call_id) THEN call ELSE setitem(call, call_id, c)

associate_call(call_id, c) == setitem(call, call_id, c)

\* a deregistration without the identity test
disassociate_call_any(c) == delitem(call, obj["call"][c].id)

disassociate_call(c) ==
    IF lookup_call(obj["call"][c].id) = c
    THEN delitem(call, obj["call"][c].id) ELSE call

\* an Account that is not entered into Lib.account
associate_account_skip(acc_id, a) == account

associate_account(acc_id, a) == setitem(account, acc_id, a)

\* a deregistration without the identity test
disassociate_account_any(a) == delitem(account, obj["account"][a].id)

disassociate_account(a) ==
    IF lookup_account(obj["account"][a].id) = a
    THEN delitem(account, obj["account"][a].id) ELSE account

\* the two dictionaries after _associate_buddy, for a buddy whose info() has
\* the given URI
associate_buddy(buddy_id, b, uri) ==
    [buddy |-> setitem(buddy, buddy_id, b),
     buddy_by_uri |-> setitem(buddy_by_uri, UriKey(uri), b)]

\* the two dictionaries after _disassociate_buddy; the second dictionary is
\* probed with the URI string itself
disassociate_buddy(b) ==
    [buddy |-> IF lookup_buddy(obj["buddy"][b].id, NoUri) = b
               THEN delitem(buddy, obj["buddy"][b].id) ELSE buddy,
     buddy_by_uri |-> IF has_key(buddy_by_uri, obj["buddy"][b].uri)
                      THEN delitem(buddy_by_uri, obj["buddy"][b].uri)
                      ELSE buddy_by_uri]

\* history bookkeeping
Registered(k, h, o) == [latest EXCEPT ![k] = setitem(latest[k], h, o)]

Deregistered(k, o) ==
    IF has_key(latest[k], obj[k][o].id) /\ latest[k][obj[k][o].id] = o
    THEN [latest EXCEPT ![k] = delitem(latest[k], obj[k][o].id)]
    ELSE latest

Constructed(k) == 1..nobj[k]

\* room for one more wrapper object
CanConstruct == nobj["call"] + nobj["account"] + nobj["buddy"] < MaxObj

\* room for one more object of class k
Room(k) == nobj[k] < MaxPerKind

Observe(o, r, ex, inv, hu) ==
    /\ op' = o
    /\ ret' = r
    /\ raised' = ex
    /\ invoked' = inv
    /\ hangups' = hu
    /\ UNCHANGED aux

----------------------------------------------------------------------------
\* Constructors.  valid: whether the engine's get_info knows the id.

\* Call.__init__(lib, call_id)
NewCall(call_id, valid) ==
    /\ LET c == nobj["call"] + 1 IN
        /\ nobj' = [nobj EXCEPT !["call"] = c]
        /\ obj' = [obj EXCEPT !["call"][c] =
                      [id |-> call_id, cb |-> <<"default", c>>, uri |-> NoUri]]
        /\ call' = associate_call(call_id, c)
        /\ latest' = Registered("call", call_id, c)
        /\ Observe([NoOp EXCEPT !.name = "Call.__init__", !.call_id = call_id,
                                !.o = c],
                   <<>>, IF valid THEN "none" ELSE "Error", <<>>, <<>>)
        /\ destroyed' = IF valid THEN destroyed
                        ELSE destroyed \cup {<<"call", c>>}
    /\ UNCHANGED <<account, buddy, buddy_by_uri>>

\* while the model has room for the object
CallInit(call_id, valid) == CanConstruct /\ NewCall(call_id, valid)

\* Account.__init__(lib, id): the handler stays the class attribute
\* AccountCallback(None), as _cb is assigned to a local name
NewAccount(acc_id, valid) ==
    /\ LET a == nobj["account"] + 1 IN
        /\ nobj' = [nobj EXCEPT !["account"] = a]
        /\ obj' = [obj EXCEPT !["account"][a] =
                      [id |-> acc_id, cb |-> <<"class", None>>, uri |-> NoUri]]
        /\ account' = associate_account(acc_id, a)
        /\ latest' = Registered("account", acc_id, a)
        /\ Observe([NoOp EXCEPT !.name = "Account.__init__",
                                !.acc_id = acc_id, !.o = a],
                   <<>>, IF valid THEN "none" ELSE "Error", <<>>, <<>>)
        /\ destroyed' = IF valid THEN destroyed
                        ELSE destroyed \cup {<<"account", a>>}
    /\ UNCHANGED <<call, buddy, buddy_by_uri>>

AccountInit(acc_id, valid) == CanConstruct /\ NewAccount(acc_id, valid)

\* Buddy.__init__(lib, id, account), the engine holding uri for the buddy
NewBuddy(buddy_id, uri) ==
    /\ LET b == nobj["buddy"] + 1 IN
        /\ nobj' = [nobj EXCEPT !["buddy"] = b]
        /\ obj' = [obj EXCEPT !["buddy"][b] =
                      [id |-> buddy_id, cb |-> <<"default", b>>, uri |-> uri]]
        /\ buddy' = associate_buddy(buddy_id, b, uri).buddy
        /\ buddy_by_uri' = associate_buddy(buddy_id, b, uri).buddy_by_uri
        /\ latest' = Registered("buddy", buddy_id, b)
        /\ Observe([NoOp EXCEPT !.name = "Buddy.__init__",
                                !.buddy_id = buddy_id, !.o = b, !.uri = uri],
                   <<>>, "none", <<>>, <<>>)
    /\ UNCHANGED <<call, account, destroyed>>

BuddyInit(buddy_id, uri) == CanConstruct /\ NewBuddy(buddy_id, uri)

----------------------------------------------------------------------------
\* Deregistration called with a wrapper object

DisassociateCall(c) ==
    /\ call' = disassociate_call(c)
    /\ latest' = Deregistered("call", c)
    /\ destroyed' = destroyed \cup {<<"call", c>>}
    /\ Observe([NoOp EXCEPT !.name = "_disassociate_call", !.o = c,
                            !.call_id = obj["call"][c].id],
               <<>>, "none", <<>>, <<>>)
    /\ UNCHANGED <<account, buddy, buddy_by_uri, obj, nobj>>

DisassociateAccount(a) ==
    /\ account' = disassociate_account(a)
    /\ latest' = Deregistered("account", a)
    /\ destroyed' = destroyed \cup {<<"account", a>>}
    /\ Observe([NoOp EXCEPT !.name = "_disassociate_account", !.o = a,
                            !.acc_id = obj["account"][a].id],
               <<>>, "none", <<>>, <<>>)
    /\ UNCHANGED <<call, buddy, buddy_by_uri, obj, nobj>>

DisassociateBuddy(b) ==
    /\ buddy' = disassociate_buddy(b).buddy
    /\ buddy_by_uri' = disassociate_buddy(b).buddy_by_uri
    /\ latest' = Deregistered("buddy", b)
    /\ destroyed' = destroyed \cup {<<"buddy", b>>}
    /\ Observe([NoOp EXCEPT !.name = "_disassociate_buddy", !.o = b,
                            !.buddy_id = obj["buddy"][b].id],
               <<>>, "none", <<>>, <<>>)
    /\ UNCHANGED <<call, account, obj, nobj>>

----------------------------------------------------------------------------
\* Destructors

\* Call.__del__: _disassociate_call(self._id, self) passes one argument too
\* many, so the call raises TypeError before the method body runs
CallDel(c) ==
    /\ <<"call", c>> \notin destroyed
    /\ destroyed' = destroyed \cup {<<"call", c>>}
    /\ Observe([NoOp EXCEPT !.name = "Call.__del__", !.o = c,
                            !.call_id = obj["call"][c].id],
               <<>>, "TypeError", <<>>, <<>>)
    /\ UNCHANGED <<call, account, buddy, buddy_by_uri, obj, nobj, latest>>

\* Account.__del__: _disassociate_account(self._id, self), likewise
AccountDel(a) ==
    /\ <<"account", a>> \notin destroyed
    /\ destroyed' = destroyed \cup {<<"account", a>>}
    /\ Observe([NoOp EXCEPT !.name = "Account.__del__", !.o = a,
                            !.acc_id = obj["account"][a].id],
               <<>>, "TypeError", <<>>, <<>>)
    /\ UNCHANGED <<call, account, buddy, buddy_by_uri, obj, nobj, latest>>

\* Buddy.__del__: _disassociate_buddy(self)
BuddyDel(b) ==
    /\ <<"buddy", b>> \notin destroyed
    /\ buddy' = disassociate_buddy(b).buddy
    /\ buddy_by_uri' = disassociate_buddy(b).buddy_by_uri
    /\ latest' = Deregistered("buddy", b)
    /\ destroyed' = destroyed \cup {<<"buddy", b>>}
    /\ Observe([NoOp EXCEPT !.name = "Buddy.__del__", !.o = b,
                            !.buddy_id = obj["buddy"][b].id],
               <<>>, "none", <<>>, <<>>)
    /\ UNCHANGED <<call, account, obj, nobj>>

----------------------------------------------------------------------------
\* The registry and the objects' life cycle

ConstructStep ==
    \/ \E h \in Handles, valid \in BOOLEAN : CallInit(h, valid)
    \/ \E h \in Handles, valid \in BOOLEAN : AccountInit(h, valid)
    \/ \E h \in Handles, uri \in URIs : BuddyInit(h, uri)

DisassociateStep ==
    \/ \E c \in Constructed("call") : DisassociateCall(c)
    \/ \E a \in Constructed("account") : DisassociateAccount(a)
    \/ \E b \in Constructed("buddy") : DisassociateBuddy(b)

DelStep ==
    \/ \E c \in Constructed("call") : CallDel(c)
    \/ \E a \in Constructed("account") : AccountDel(a)
    \/ \E b \in Constructed("buddy") : BuddyDel(b)

Next == ConstructStep \/ DisassociateStep \/ DelStep

Spec == InitLib /\ [][Next]_vars

----------------------------------------------------------------------------
\* Dispatch.  A dispatcher's outcome: what it returns, what it raises, the
\* handler methods it invokes and the hangup requests it sends the engine.

Outcome(r, ex, inv, hu) ==
    [ret |-> r, raised |-> ex, invoked |-> inv, hangups |-> hu]

\* the call o._cb.method(...)
Invoke(k, o, method) ==
    [kind |-> k, obj |-> o, cb |-> obj[k][o].cb, method |-> method]

Nothing == Outcome(<<>>, "none", <<>>, <<>>)

Notify(k, o, method) ==
    Outcome(<<>>, "none", <<Invoke(k, o, method)>>, <<>>)

\* what the method of handler cb returns when the engine suggests r: the
\* handlers of the library return r; the application's handler 1 refuses
\* and its handler 2 accepts, whatever is suggested
HandlerAnswer(cb, method, r) ==
    IF cb[1] # "user" THEN r
    ELSE CASE method = "on_transfer_request"
                -> IF cb[2] = 1 THEN <<486>> ELSE <<202>>
           [] method = "on_transfer_status"
                -> IF cb[2] = 1 THEN <<0>> ELSE <<1>>
           [] OTHER
                -> IF cb[2] = 1 THEN <<486, "Busy Here">> ELSE <<200, "OK">>

\* the dispatcher returns what the call's handler returns
Respond(o, method, r) ==
    Outcome(HandlerAnswer(obj["call"][o].cb, method, r), "none",
            <<Invoke("call", o, method)>>, <<>>)

\* None._cb
AttributeError == Outcome(<<>>, "AttributeError", <<>>, <<>>)

cb_on_reg_state(acc_id) ==
    LET acc == lookup_account(acc_id) IN
    IF acc # None THEN Notify("account", acc, "on_reg_state") ELSE Nothing

cb_on_call_state(call_id) ==
    LET c == lookup_call(call_id) IN
    IF c # None THEN Notify("call", c, "on_state") ELSE Nothing

cb_on_call_media_state(call_id) ==
    LET c == lookup_call(call_id) IN
    IF c # None THEN Notify("call", c, "on_media_state") ELSE Nothing

cb_on_dtmf_digit(call_id) ==
    LET c == lookup_call(call_id) IN
    IF c # None THEN Notify("call", c, "on_dtmf_digit") ELSE Nothing

cb_on_call_transfer_request(call_id, code) ==
    LET c == lookup_call(call_id) IN
    IF c # None THEN Respond(c, "on_transfer_request", <<code>>)
    ELSE Outcome(<<SC_DECLINE>>, "none", <<>>, <<>>)

\* a transfer status on an unknown call answered "stop"
cb_on_call_transfer_status_stop(call_id, cont) ==
    LET c == lookup_call(call_id) IN
    IF c # None THEN Respond(c, "on_transfer_status", <<cont>>)
    ELSE Outcome(<<0>>, "none", <<>>, <<>>)

cb_on_call_transfer_status(call_id, cont) ==
    LET c == lookup_call(call_id) IN
    IF c # None THEN Respond(c, "on_transfer_status", <<cont>>)
    ELSE Outcome(<<cont>>, "none", <<>>, <<>>)

cb_on_call_replace_request(call_id, code, reason) ==
    LET c == lookup_call(call_id) IN
    IF c # None THEN Respond(c, "on_replace_request", <<code, reason>>)
    ELSE Outcome(<<code, reason>>, "none", <<>>, <<>>)

cb_on_call_replaced(old_call_id, new_call_id) ==
    LET old_call == lookup_call(old_call_id)
        new_call == lookup_call(new_call_id)
    IN  IF old_call # None /\ new_call # None
        THEN Notify("call", old_call, "on_replaced") ELSE Nothing

\* a routing that tries the account before the buddy
RouteMessage_account_first(method, call_id, uri, acc_id) ==
    LET c == IF call_id = NoCall THEN lookup_call(call_id) ELSE None IN
    IF c # None THEN Notify("call", c, method)
    ELSE LET acc == lookup_account(acc_id)
             b == lookup_buddy(NoBuddy, uri)
         IN  IF acc # None THEN Notify("account", acc, method)
             ELSE IF b # None THEN Notify("buddy", b, method)
             ELSE AttributeError

\* the routing shared by _cb_on_pager, _cb_on_pager_status and _cb_on_typing;
\* uri is from_uri for on_pager and on_typing, to_uri for on_pager_status
RouteMessage(method, call_id, uri, acc_id) ==
    LET c == IF call_id = NoCall THEN lookup_call(call_id) ELSE None IN
    IF c # None THEN Notify("call", c, method)
    ELSE LET acc == lookup_account(acc_id)
             b == lookup_buddy(NoBuddy, uri)
         IN  IF b # None THEN Notify("buddy", b, method)
             ELSE IF acc # None THEN Notify("account", acc, method)
             ELSE AttributeError

cb_on_pager(call_id, from_uri, acc_id) ==
    RouteMessage("on_pager", call_id, from_uri, acc_id)

cb_on_pager_status(call_id, to_uri, acc_id) ==
    RouteMessage("on_pager_status", call_id, to_uri, acc_id)

cb_on_typing(call_id, from_uri, acc_id) ==
    RouteMessage("on_typing", call_id, from_uri, acc_id)

\* a dispatcher without the test `if buddy:`
cb_on_buddy_state_unguarded(buddy_id) ==
    LET b == lookup_buddy(buddy_id, NoUri) IN
    IF b # None THEN Notify("buddy", b, "on_state") ELSE AttributeError

cb_on_buddy_state(buddy_id) ==
    LET b == lookup_buddy(buddy_id, NoUri) IN
    IF b # None THEN Notify("buddy", b, "on_state") ELSE Nothing

\* the module's function _cb_on_...(...) is _lib._cb_on_...(...): with the
\* global _lib None the attribute lookup raises AttributeError, and
\* otherwise the method of the Lib runs
ViaLib(out) == IF _lib = None THEN AttributeError ELSE out

\* a dispatcher that leaves the registry as it is
Dispatched(o, out) ==
    /\ Observe(o, out.ret, out.raised, out.invoked, out.hangups)
    /\ UNCHANGED <<call, account, buddy, buddy_by_uri, obj, nobj, destroyed,
                   latest>>

OnRegState(acc_id) ==
    Dispatched([NoOp EXCEPT !.name = "on_reg_state", !.acc_id = acc_id],
               ViaLib(cb_on_reg_state(acc_id)))

OnCallState(call_id) ==
    Dispatched([NoOp EXCEPT !.name = "on_call_state", !.call_id = call_id],
               ViaLib(cb_on_call_state(call_id)))

OnCallMediaState(call_id) ==
    Dispatched([NoOp EXCEPT !.name = "on_call_media_state",
                            !.call_id = call_id],
               ViaLib(cb_on_call_media_state(call_id)))

OnDtmfDigit(call_id) ==
    Dispatched([NoOp EXCEPT !.name = "on_dtmf_digit", !.call_id = call_id],
               ViaLib(cb_on_dtmf_digit(call_id)))

OnCallTransferRequest(call_id, code) ==
    Dispatched([NoOp EXCEPT !.name = "on_call_transfer_request",
                            !.call_id = call_id, !.arg = <<code>>],
               ViaLib(cb_on_call_transfer_request(call_id, code)))

OnCallTransferStatus(call_id, cont) ==
    Dispatched([NoOp EXCEPT !.name = "on_call_transfer_status",
                            !.call_id = call_id, !.arg = <<cont>>],
               ViaLib(cb_on_call_transfer_status(call_id, cont)))

OnCallReplaceRequest(call_id, code, reason) ==
    Dispatched([NoOp EXCEPT !.name = "on_call_replace_request",
                            !.call_id = call_id, !.arg = <<code, reason>>],
               ViaLib(cb_on_call_replace_request(call_id, code, reason)))

\* op.call_id is old_call_id, op.arg holds new_call_id
OnCallReplaced(old_call_id, new_call_id) ==
    Dispatched([NoOp EXCEPT !.name = "on_call_replaced",
                            !.call_id = old_call_id, !.arg = <<new_call_id>>],
               ViaLib(cb_on_call_replaced(old_call_id, new_call_id)))

OnPager(call_id, from_uri, acc_id) ==
    Dispatched([NoOp EXCEPT !.name = "on_pager", !.call_id = call_id,
                            !.uri = from_uri, !.acc_id = acc_id],
               ViaLib(cb_on_pager(call_id, from_uri, acc_id)))

OnPagerStatus(call_id, to_uri, acc_id) ==
    Dispatched([NoOp EXCEPT !.name = "on_pager_status", !.call_id = call_id,
                            !.uri = to_uri, !.acc_id = acc_id],
               ViaLib(cb_on_pager_status(call_id, to_uri, acc_id)))

OnTyping(call_id, from_uri, acc_id) ==
    Dispatched([NoOp EXCEPT !.name = "on_typing", !.call_id = call_id,
                            !.uri = from_uri, !.acc_id = acc_id],
               ViaLib(cb_on_typing(call_id, from_uri, acc_id)))

OnBuddyState(buddy_id) ==
    Dispatched([NoOp EXCEPT !.name = "on_buddy_state", !.buddy_id = buddy_id],
               ViaLib(cb_on_buddy_state(buddy_id)))

\* a default handler that leaves the call alone
DefaultOnIncomingCall_keep(acc, call_id, err) ==
    Outcome(<<>>, "none", <<[kind |-> "account", obj |-> acc,
                             cb |-> obj["account"][acc].cb,
                             method |-> "on_incoming_call"]>>, <<>>)

\* the default AccountCallback.on_incoming_call: call.hangup(), which sends
\* call_hangup(call_id, 603, "", None) and raises Error on a non-zero status
DefaultOnIncomingCall(acc, call_id, err) ==
    Outcome(<<>>, IF err = 0 THEN "none" ELSE "Error",
            <<Invoke("account", acc, "on_incoming_call")>>, <<<<call_id, SC_DECLINE>>>>)

\* acc._cb.on_incoming_call(call): the library's handler hangs the call up,
\* the application's handlers keep it
IncomingCallHandler(acc, call_id, err) ==
    IF obj["account"][acc].cb[1] = "user"
    THEN Notify("account", acc, "on_incoming_call")
    ELSE DefaultOnIncomingCall(acc, call_id, err)

\* an unknown account's call left alone
RejectIncomingCall_silent(call_id) == Outcome(<<>>, "none", <<>>, <<>>)

\* an account without an object: the dispatcher hangs the call up itself
RejectIncomingCall(call_id) ==
    Outcome(<<>>, "none", <<>>, <<<<call_id, SC_DECLINE>>>>)

\* the dispatch constructs a Call: a Lib is there and the account is known
MakesCall(acc_id) == _lib # None /\ lookup_account(acc_id) # None

\* _cb_on_incoming_call(acc_id, call_id, rdata).  valid: whether call_get_info
\* knows call_id when Call.__init__ asks; err: the status of call_hangup
IncomingCall(acc_id, call_id, valid, err) ==
    LET acc == lookup_account(acc_id)
        o == [NoOp EXCEPT !.name = "on_incoming_call", !.acc_id = acc_id,
                          !.call_id = call_id]
    IN  IF _lib = None THEN Dispatched(o, AttributeError)
        ELSE IF acc # None
        THEN /\ LET c == nobj["call"] + 1
                    out == IF valid
                           THEN IncomingCallHandler(acc, call_id, err)
                           ELSE Outcome(<<>>, "Error", <<>>, <<>>)
                IN  /\ nobj' = [nobj EXCEPT !["call"] = c]
                    /\ obj' = [obj EXCEPT !["call"][c] =
                                  [id |-> call_id, cb |-> <<"default", c>>,
                                   uri |-> NoUri]]
                    /\ call' = associate_call(call_id, c)
                    /\ latest' = Registered("call", call_id, c)
                    /\ destroyed' = IF valid THEN destroyed
                                    ELSE destroyed \cup {<<"call", c>>}
                    /\ Observe([o EXCEPT !.o = c], out.ret, out.raised,
                               out.invoked, out.hangups)
             /\ UNCHANGED <<account, buddy, buddy_by_uri>>
        ELSE Dispatched(o, RejectIncomingCall(call_id))

\* while the model has room for the Call
OnIncomingCall(acc_id, call_id, valid, err) ==
    /\ MakesCall(acc_id) => CanConstruct
    /\ IncomingCall(acc_id, call_id, valid, err)

CallEventStep ==
    \/ \E h \in Handles : OnCallState(h)
    \/ \E h \in Handles : OnCallMediaState(h)
    \/ \E h \in Handles : OnDtmfDigit(h)
    \/ \E h \in Handles, code \in TransferCodes :
          OnCallTransferRequest(h, code)
    \/ \E h \in Handles, cont \in ContFlags : OnCallTransferStatus(h, cont)
    \/ \E h \in Handles, r \in ReplaceResponses :
          OnCallReplaceRequest(h, r[1], r[2])
    \/ \E h1 \in Handles, h2 \in Handles : OnCallReplaced(h1, h2)

AccountEventStep ==
    \/ \E h \in Handles : OnRegState(h)
    \/ \E a \in Handles, h \in Handles, valid \in BOOLEAN, err \in ErrCodes :
          OnIncomingCall(a, h, valid, err)

MessageStep ==
    \/ \E h \in Handles \cup {NoCall}, uri \in URIs, a \in Handles :
          OnPager(h, uri, a)
    \/ \E h \in Handles \cup {NoCall}, uri \in URIs, a \in Handles :
          OnPagerStatus(h, uri, a)
    \/ \E h \in Handles \cup {NoCall}, uri \in URIs, a \in Handles :
          OnTyping(h, uri, a)
    \/ \E h \in Handles : OnBuddyState(h)

\* Calls, accounts and the notifications the engine raises for them
NextCall ==
    \/ \E h \in Handles, valid \in BOOLEAN : CallInit(h, valid)
    \/ \E h \in Handles, valid \in BOOLEAN : AccountInit(h, valid)
    \/ \E c \in Constructed("call") : DisassociateCall(c)
    \/ \E a \in Constructed("account") : DisassociateAccount(a)
    \/ CallEventStep
    \/ AccountEventStep

SpecCall == InitLib /\ [][NextCall]_vars

\* Instant messages, their delivery status and typing indications
NextMsg ==
    \/ ConstructStep
    \/ \E b \in Constructed("buddy") : DisassociateBuddy(b)
    \/ MessageStep

SpecMsg == InitLib /\ [][NextMsg]_vars

\* The same notifications outside any call: call_id is always -1
NextIM ==
    \/ \E h \in Handles : AccountInit(h, TRUE)
    \/ \E h \in Handles, uri \in URIs : BuddyInit(h, uri)
    \/ \E a \in Constructed("account") : DisassociateAccount(a)
    \/ \E b \in Constructed("buddy") : DisassociateBuddy(b)
    \/ \E uri \in URIs, a \in Handles : OnPager(NoCall, uri, a)
    \/ \E uri \in URIs, a \in Handles : OnPagerStatus(NoCall, uri, a)
    \/ \E uri \in URIs, a \in Handles : OnTyping(NoCall, uri, a)
    \/ \E h \in Handles : OnBuddyState(h)

SpecIM == InitLib /\ [][NextIM]_vars

----------------------------------------------------------------------------
\* Properties of the registry (under Spec)

LatestOf(k, h) == IF has_key(latest[k], h) THEN latest[k][h] ELSE None

DictOf(k) == CASE k = "call" -> call [] k = "account" -> account
               [] OTHER -> buddy

\* the ids under which the dictionary of class k holds object o
EntriesOf(k, o) == {h \in DOMAIN DictOf(k) : DictOf(k)[h] = o}

Live(k) == {o \in Constructed(k) : <<k, o>> \notin destroyed}

DisassociateNames ==
    {"_disassociate_call", "_disassociate_account", "_disassociate_buddy",
     "Buddy.__del__"}

\* the class of the object a registry operation was called with
KindOfOp(name) ==
    CASE name \in {"_disassociate_call", "Call.__del__", "Call.__init__",
                   "Call.set_callback"} -> "call"
      [] name \in {"_disassociate_account", "Account.__del__",
                   "Account.__init__", "Account.set_callback"} -> "account"
      [] OTHER -> "buddy"

OpKind == KindOfOp(op.name)

\* the dictionary of class k holds an object other than o under o's id
HoldsAnother(k, o) ==
    /\ has_key(DictOf(k), obj[k][o].id)
    /\ DictOf(k)[obj[k][o].id] # o

\* C1: for every class and id, lookup returns the object registered last
\* under that id unless that object has since been passed to deregistration,
\* and None (without raising) for an id with no current registration
C1_LookupReturnsLatest ==
    \A h \in Handles \cup {NoCall} :
        /\ lookup_call(h) = LatestOf("call", h)
        /\ lookup_account(h) = LatestOf("account", h)
        /\ lookup_buddy(h, NoUri) = LatestOf("buddy", h)

\* two calls registered under one id, the second then deregistered: the id
\* has no registration left, though the first call was never deregistered
C1_Witness ==
    /\ op.name = "_disassociate_call"
    /\ op.o = 2
    /\ obj["call"][1].id = obj["call"][2].id
    /\ <<"call", 1>> \notin destroyed
    /\ lookup_call(op.call_id) = None

\* C2: deregistration called with an object while the dictionary of its
\* class holds a different object under the object's id changes no
\* dictionary, so the lookup still returns that other object
C2_StaleUnregisterIsNoOp ==
    [][\A k \in Kinds : \A o \in Constructed(k) :
          ( /\ op'.name \in DisassociateNames
            /\ KindOfOp(op'.name) = k
            /\ op'.o = o
            /\ HoldsAnother(k, o) )
          => registry' = registry]_vars

\* A at an id, B at the same id, then deregistration of A: B is still there
C2_Witness ==
    /\ op.name \in DisassociateNames
    /\ Constructed(OpKind) = {1, 2}
    /\ op.o = 1
    /\ obj[OpKind][1].id = obj[OpKind][2].id
    /\ HoldsAnother(OpKind, 1)
    /\ EntriesOf(OpKind, 2) = {obj[OpKind][2].id}

\* C9: after the destructor of a Call or an Account has run, the lookup of
\* its id does not return it any more (None if the entry was that object,
\* the other object if the entry was a different one)
C9_DestructorDeregisters ==
    /\ op.name = "Call.__del__" => lookup_call(op.call_id) # op.o
    /\ op.name = "Account.__del__" => lookup_account(op.acc_id) # op.o

\* an account whose destructor ran and raised, still found under its id
C9_Witness ==
    /\ op.name = "Account.__del__"
    /\ raised = "TypeError"
    /\ <<"account", op.o>> \in destroyed
    /\ lookup_account(op.acc_id) = op.o

\* C10 as claimed: every live wrapper object has exactly one entry in the
\* dictionary of its class, under its own id
C10_EveryLiveObjectHasItsEntry ==
    \A k \in Kinds : \A o \in Live(k) : EntriesOf(k, o) = {obj[k][o].id}

\* a later object of the same class constructed for the same id
Superseded(k, o) ==
    \E o2 \in Constructed(k) : o2 > o /\ obj[k][o2].id = obj[k][o].id

EntriesKeyedByOwnId ==
    \A k \in Kinds : \A o \in Constructed(k) :
        /\ EntriesOf(k, o) \subseteq {obj[k][o].id}
        /\ (o \in Live(k) /\ ~Superseded(k, o))
              => EntriesOf(k, o) = {obj[k][o].id}
        /\ (o \in Live(k) /\ Superseded(k, o)) => EntriesOf(k, o) = {}

IdsNeverChange ==
    \A k \in Kinds : \A o \in Constructed(k) : obj'[k][o].id = obj[k][o].id

\* C10, amended: every entry h -> o of a dictionary has o's id as h, no
\* operation changes the id of a constructed object, and a live object has
\* exactly one entry, under its own id, unless a later object of its class
\* was constructed for the same id, and then it has none
C10_RegistryInvariant == []EntriesKeyedByOwnId /\ [][IdsNeverChange]_vars

\* a live call that lost its entry to a later call with the same id
C10_Witness ==
    /\ Live("call") = {1, 2}
    /\ obj["call"][1].id = obj["call"][2].id
    /\ EntriesOf("call", 1) = {}
    /\ EntriesOf("call", 2) = {obj["call"][2].id}

----------------------------------------------------------------------------
\* Properties of the call and account notifications (under SpecCall)

CallScopedNames ==
    {"on_call_state", "on_call_media_state", "on_dtmf_digit",
     "on_call_transfer_request", "on_call_transfer_status",
     "on_call_replace_request", "on_call_replaced"}

ResponseNames ==
    {"on_call_transfer_request", "on_call_transfer_status",
     "on_call_replace_request"}

\* an incoming call for an account id without an Account object
UnknownAccountCall ==
    op'.name = "on_incoming_call" /\ lookup_account(op'.acc_id) = None

\* C3, amended: an incoming call for an account id with no registered
\* Account sends the engine exactly one hangup request for that call, with
\* the fixed status 603 (Decline), invokes no handler and constructs and
\* registers no Call
C3_UnknownAccountRejectsCall ==
    [][UnknownAccountCall =>
          /\ hangups' = <<<<op'.call_id, SC_DECLINE>>>>
          /\ invoked' = <<>>
          /\ raised' = "none"
          /\ UNCHANGED <<call, account, buddy, buddy_by_uri, obj, nobj>>]_vars

\* C3 as claimed: the status of that hangup request is "service
\* unavailable", SIP status code 503
C3_ServiceUnavailableStatus ==
    [][UnknownAccountCall =>
          /\ hangups' = <<<<op'.call_id, 503>>>>
          /\ invoked' = <<>>
          /\ raised' = "none"
          /\ UNCHANGED <<call, account, buddy, buddy_by_uri, obj, nobj>>]_vars

\* a call for account id 1 rejected while an Account is registered under 0
C3_Witness ==
    /\ op.name = "on_incoming_call"
    /\ op.acc_id = 1
    /\ lookup_account(1) = None
    /\ lookup_account(0) # None
    /\ hangups = <<<<op.call_id, SC_DECLINE>>>>
    /\ invoked = <<>>

\* a call notification for a call id without a Call object
UnknownCallEvent ==
    op.name \in CallScopedNames /\ lookup_call(op.call_id) = None

\* C4, amended: a call notification for a call id with no registered Call
\* invokes no handler and raises nothing; a transfer status returns the
\* engine's cont and a replace request the engine's (code, reason)
\* unchanged, and a transfer request returns the fixed status 603 whatever
\* code the engine suggested
C4_UnknownCallDropped ==
    UnknownCallEvent =>
        /\ invoked = <<>>
        /\ raised = "none"
        /\ hangups = <<>>
        /\ ret = CASE op.name = "on_call_transfer_request" -> <<SC_DECLINE>>
                   [] op.name \in {"on_call_transfer_status",
                                   "on_call_replace_request"} -> op.arg
                   [] OTHER -> <<>>

\* C4 as claimed: each of the three response-bearing notifications returns
\* the value the engine suggested
C4_DefaultReturnedUnchanged ==
    UnknownCallEvent =>
        /\ invoked = <<>>
        /\ op.name \in ResponseNames => ret = op.arg

\* a transfer request the engine suggested to accept, for an unknown call
\* id, while another call is registered
C4_Witness ==
    /\ UnknownCallEvent
    /\ op.name = "on_call_transfer_request"
    /\ op.arg = <<202>>
    /\ ret = <<SC_DECLINE>>
    /\ DOMAIN call # {}

----------------------------------------------------------------------------
\* Properties of the message notifications (C5 and C8 under SpecMsg, C6 and
\* C7 under SpecIM)

MessageNames == {"on_pager", "on_pager_status", "on_typing"}

DispatchNames ==
    CallScopedNames \cup MessageNames
        \cup {"on_reg_state", "on_incoming_call", "on_buddy_state"}

\* the registered buddies whose URI has the user and host of uri
MatchingBuddies(uri) ==
    {b \in Constructed("buddy") :
        /\ EntriesOf("buddy", b) # {}
        /\ UriKey(obj["buddy"][b].uri) = UriKey(uri)}

\* C5: a message, message status or typing notification that carries a call
\* id other than -1 under which a Call is registered is delivered to that
\* call's handler and to no other (stated for the notifications whose
\* account id has an Account registered)
C5_CallContextFirst ==
    ( /\ op.name \in MessageNames
      /\ op.call_id # NoCall
      /\ lookup_call(op.call_id) # None
      /\ lookup_account(op.acc_id) # None )
    => invoked = <<Invoke("call", lookup_call(op.call_id), op.name)>>

\* a typing indication inside registered call 0 handed to the account
C5_Witness ==
    /\ op.name = "on_typing"
    /\ op.call_id = 0
    /\ lookup_call(0) # None
    /\ lookup_buddy(NoBuddy, op.uri) = None
    /\ lookup_account(op.acc_id) # None
    /\ invoked = <<Invoke("account", lookup_account(op.acc_id), "on_typing")>>

\* C6: for a message notification without a call context, when a registered
\* buddy has the user and host of the notification's URI exactly one handler
\* is invoked, that of a registered buddy with that user and host, and not
\* the account's; the account's handler is invoked only when no registered
\* buddy matches
C6_BuddyBeforeAccount ==
    (op.name \in MessageNames /\ op.call_id = NoCall) =>
        /\ MatchingBuddies(op.uri) # {} =>
              /\ Len(invoked) = 1
              /\ invoked[1].kind = "buddy"
              /\ invoked[1].obj \in MatchingBuddies(op.uri)
              /\ invoked[1].method = op.name
              /\ raised = "none"
        /\ (\E i \in DOMAIN invoked : invoked[i].kind = "account") =>
              /\ MatchingBuddies(op.uri) = {}
              /\ invoked =
                    <<Invoke("account", lookup_account(op.acc_id), op.name)>>

\* a message from sip:alice@example.com:5060;transport=tcp, with no call
\* context, while a buddy with that user and host is registered: the handler
\* invoked is that of another buddy of that user and host, deregistered
\* before, which the (user, host) key still holds
C6_Witness ==
    /\ op.name = "on_pager"
    /\ op.call_id = NoCall
    /\ op.uri = <<"sip", "alice", "example.com", "5060", "tcp">>
    /\ MatchingBuddies(op.uri) # {}
    /\ raised = "none"
    /\ \E b \in Constructed("buddy") \ MatchingBuddies(op.uri) :
          /\ EntriesOf("buddy", b) = {}
          /\ UriKey(obj["buddy"][b].uri) = UriKey(op.uri)
          /\ invoked = <<Invoke("buddy", b, "on_pager")>>

\* C7: a message notification without a call context, with no buddy for its
\* URI and no Account under its account id, invokes no handler and returns
\* normally
C7_UnroutableMessageDropped ==
    ( /\ op.name \in MessageNames
      /\ op.call_id = NoCall
      /\ lookup_buddy(NoBuddy, op.uri) = None
      /\ lookup_account(op.acc_id) = None )
    => (invoked = <<>> /\ raised = "none")

\* a message without call context, buddy or account ends in AttributeError
C7_Witness ==
    /\ op.name = "on_pager"
    /\ op.call_id = NoCall
    /\ lookup_buddy(NoBuddy, op.uri) = None
    /\ lookup_account(op.acc_id) = None
    /\ invoked = <<>>
    /\ raised = "AttributeError"

\* C8: a dispatcher raises nothing unless the handler it invoked raised
C8_DispatcherNeverRaises ==
    (op.name \in DispatchNames /\ invoked = <<>>) => raised = "none"

\* a delivery status inside registered call 1, for an account id without an
\* Account: no handler ran, and the dispatcher raised
C8_Witness ==
    /\ op.name = "on_pager_status"
    /\ op.call_id = 1
    /\ lookup_call(1) # None
    /\ invoked = <<>>
    /\ raised # "none"

----------------------------------------------------------------------------
\* Properties of the buddy lookup by URI (under Spec)

\* two URIs with the same user and host resolve alike, whatever their port
\* and transport
UriLookupIgnoresPortTransport ==
    \A u \in URIs, v \in URIs :
        UriKey(u) = UriKey(v)
            => lookup_buddy(NoBuddy, u) = lookup_buddy(NoBuddy, v)

\* the buddies constructed with the user and host of uri and not passed to
\* deregistration since
LiveMatchingBuddies(uri) ==
    {b \in Live("buddy") : UriKey(obj["buddy"][b].uri) = UriKey(uri)}

\* C11: the lookup of a buddy by URI depends on the URI's user and host only;
\* when buddies registered and not deregistered have that user and host it
\* resolves to one of them, and when none has them it resolves to None
C11_UriLookupByUserHost ==
    /\ UriLookupIgnoresPortTransport
    /\ \A u \in URIs :
          /\ LiveMatchingBuddies(u) # {}
                => lookup_buddy(NoBuddy, u) \in LiveMatchingBuddies(u)
          /\ LiveMatchingBuddies(u) = {} => lookup_buddy(NoBuddy, u) = None

\* the only buddy for alice@example.com was deregistered, and the URI with
\* port and transport still resolves to it
C11_Witness ==
    /\ op.name = "_disassociate_buddy"
    /\ obj["buddy"][op.o].uri = <<"sip", "alice", "example.com", "", "">>
    /\ buddy = EmptyDict
    /\ Live("buddy") = {}
    /\ lookup_buddy(NoBuddy, <<"sip", "alice", "example.com", "5060", "tcp">>)
          = op.o

----------------------------------------------------------------------------
\* Two threads.  The application's thread registers and deregisters calls
\* while the worker thread runs _cb_on_call_state.  No lock guards the
\* dictionaries; a thread switch can fall between any two dictionary
\* operations, each of which is atomic by itself.

\* thread t returns (or raises) from its method
Complete(t, o, out) ==
    /\ UNCHANGED libvars
    /\ UNCHANGED opvars
    /\ pc' = [pc EXCEPT ![t] = "idle"]
    /\ loc' = [loc EXCEPT ![t] = NoLocals]
    /\ op' = o
    /\ ret' = out.ret
    /\ raised' = out.raised
    /\ invoked' = out.invoked
    /\ hangups' = out.hangups

\* thread t moves on to statement l with locals v
Goto(t, l, v) ==
    /\ UNCHANGED libvars
    /\ UNCHANGED opvars
    /\ pc' = [pc EXCEPT ![t] = l]
    /\ loc' = [loc EXCEPT ![t] = v]
    /\ UNCHANGED <<op, ret, raised, invoked, hangups>>

\* dict[key] on a key that is gone
KeyError == Outcome(<<>>, "KeyError", <<>>, <<>>)

\* Call(lib, call_id) on the application's thread
AppCallInit(call_id) == pc["app"] = "idle" /\ CallInit(call_id, TRUE)

\* lib._associate_call(c._id, c) for a call constructed earlier
AppAssociateCall(c) ==
    /\ pc["app"] = "idle"
    /\ call' = associate_call(obj["call"][c].id, c)
    /\ latest' = Registered("call", obj["call"][c].id, c)
    /\ destroyed' = destroyed \ {<<"call", c>>}
    /\ Observe([NoOp EXCEPT !.name = "_associate_call", !.o = c,
                            !.call_id = obj["call"][c].id],
               <<>>, "none", <<>>, <<>>)
    /\ UNCHANGED <<account, buddy, buddy_by_uri, obj, nobj>>

DisassociateOp(c) ==
    [NoOp EXCEPT !.name = "_disassociate_call", !.o = c,
                 !.call_id = obj["call"][c].id]

\* the end of _disassociate_call(c) on the application's thread
AppDisassociated(c, out) ==
    /\ Complete("app", DisassociateOp(c), out)
    /\ latest' = Deregistered("call", c)
    /\ destroyed' = destroyed \cup {<<"call", c>>}

\* _disassociate_call(c): self.call.has_key(call._id)
AppDisassociateHasKey(c) ==
    /\ pc["app"] = "idle"
    /\ IF has_key(call, obj["call"][c].id)
       THEN /\ Goto("app", "getitem", [arg |-> c, val |-> None])
            /\ UNCHANGED <<latest, destroyed>>
       ELSE AppDisassociated(c, Nothing)
    /\ UNCHANGED <<call, account, buddy, buddy_by_uri, obj, nobj>>

\* _disassociate_call(c): self.call[call._id], compared with call
AppDisassociateGetItem ==
    /\ pc["app"] = "getitem"
    /\ LET c == loc["app"].arg
           id == obj["call"][c].id
       IN  IF ~has_key(call, id) THEN AppDisassociated(c, KeyError)
           ELSE IF call[id] = c
                THEN /\ Goto("app", "delitem", [arg |-> c, val |-> call[id]])
                     /\ UNCHANGED <<latest, destroyed>>
                ELSE AppDisassociated(c, Nothing)
    /\ UNCHANGED <<call, account, buddy, buddy_by_uri, obj, nobj>>

\* _disassociate_call(c): del self.call[call._id]
AppDisassociateDelItem ==
    /\ pc["app"] = "delitem"
    /\ LET c == loc["app"].arg
           id == obj["call"][c].id
       IN  IF has_key(call, id)
           THEN /\ call' = delitem(call, id)
                /\ AppDisassociated(c, Nothing)
           ELSE /\ call' = call
                /\ AppDisassociated(c, KeyError)
    /\ UNCHANGED <<account, buddy, buddy_by_uri, obj, nobj>>

CallStateOp(call_id) ==
    [NoOp EXCEPT !.name = "on_call_state", !.call_id = call_id]

\* _cb_on_call_state(call_id), in _lookup_call: self.call.has_key(call_id)
WorkerCallStateHasKey(call_id) ==
    /\ pc["worker"] = "idle"
    /\ IF _lib = None
       THEN Complete("worker", CallStateOp(call_id), AttributeError)
       ELSE IF has_key(call, call_id)
       THEN Goto("worker", "getitem", [arg |-> call_id, val |-> None])
       ELSE Complete("worker", CallStateOp(call_id), Nothing)
    /\ UNCHANGED <<call, account, buddy, buddy_by_uri, obj, nobj, destroyed,
                   latest>>

\* _cb_on_call_state(call_id), in _lookup_call: self.call[call_id]
WorkerCallStateGetItem ==
    /\ pc["worker"] = "getitem"
    /\ LET call_id == loc["worker"].arg IN
         IF has_key(call, call_id)
         THEN Goto("worker", "notify",
                   [arg |-> call_id, val |-> call[call_id]])
         ELSE Complete("worker", CallStateOp(call_id), KeyError)
    /\ UNCHANGED <<call, account, buddy, buddy_by_uri, obj, nobj, destroyed,
                   latest>>

\* _cb_on_call_state(call_id): call._cb.on_state()
WorkerCallStateNotify ==
    /\ pc["worker"] = "notify"
    /\ Complete("worker", CallStateOp(loc["worker"].arg),
                Notify("call", loc["worker"].val, "on_state"))
    /\ UNCHANGED <<call, account, buddy, buddy_by_uri, obj, nobj, destroyed,
                   latest>>

NextThreads ==
    \/ \E h \in Handles : AppCallInit(h)
    \/ \E c \in Constructed("call") : AppAssociateCall(c)
    \/ \E c \in Constructed("call") : AppDisassociateHasKey(c)
    \/ AppDisassociateGetItem
    \/ AppDisassociateDelItem
    \/ \E h \in Handles : WorkerCallStateHasKey(h)
    \/ WorkerCallStateGetItem
    \/ WorkerCallStateNotify

SpecThreads == InitLib /\ [][NextThreads]_vars

\* C12: while one thread registers and deregisters calls for an id and the
\* other runs the call-state dispatcher for that id, the dispatcher raises
\* nothing, and the handler it invokes, if any, is that of a call registered
\* for that id
C12_ConcurrentDispatchSafe ==
    op.name = "on_call_state" =>
        /\ raised = "none"
        /\ \A i \in DOMAIN invoked :
              obj["call"][invoked[i].obj].id = op.call_id

\* the dispatcher saw the key, the entry was deleted, the read then failed
C12_Witness ==
    /\ op.name = "on_call_state"
    /\ raised = "KeyError"
    /\ invoked = <<>>
    /\ ~has_key(call, op.call_id)
    /\ <<"call", 1>> \in destroyed

----------------------------------------------------------------------------
\* The library object, the engine and the worker thread.  The application
\* calls start() once, and destroy(), on the active instance; one worker
\* thread runs at a time.

wrappers ==
    <<call, account, buddy, buddy_by_uri, obj, nobj, destroyed, latest>>

\* the observable end of a step that invokes no handler
Observed(o, ex) ==
    /\ op' = o
    /\ ret' = <<>>
    /\ raised' = ex
    /\ invoked' = <<>>
    /\ hangups' = <<>>
    /\ UNCHANGED opvars

LibOp(name, l) == [NoOp EXCEPT !.name = name, !.o = l]

\* Lib objects constructed so far, rejected and failed ones included
ConstructedLibs == {l \in LibIds : libs[l] # "none"}

\* a constructor that never finds an instance
AlreadyExists_never == FALSE

\* Lib.__init__: if _lib
AlreadyExists == _lib # None

\* Lib(): raise if _lib is set; otherwise _pjsua.create(), whose status err
\* goes through _err_check, and then _lib = self.  op.arg is the number of
\* calls of _pjsua.create()
LibInit(err) ==
    /\ pc["app"] = "idle"
    /\ ConstructedLibs # LibIds
    /\ LET l == Cardinality(ConstructedLibs) + 1 IN
         IF AlreadyExists
         THEN /\ libs' = [libs EXCEPT ![l] = "rejected"]
              /\ Observed([LibOp("Lib.__init__", l) EXCEPT !.arg = <<0>>],
                          "Error")
              /\ UNCHANGED <<_lib, engine>>
         ELSE IF err # 0
         THEN /\ libs' = [libs EXCEPT ![l] = "failed"]
              /\ Observed([LibOp("Lib.__init__", l)
                              EXCEPT !.arg = <<1>>], "Error")
              /\ UNCHANGED <<_lib, engine>>
         ELSE /\ libs' = [libs EXCEPT ![l] = "ok"]
              /\ _lib' = l
              /\ engine' = "up"
              /\ Observed([LibOp("Lib.__init__", l)
                              EXCEPT !.arg = <<1>>], "none")
    /\ UNCHANGED <<_quit, _has_thread, late_polls, pc, loc>>
    /\ UNCHANGED wrappers

\* Lib.__del__ of an object nothing refers to any more: _pjsua.destroy()
LibDel(l) ==
    /\ pc["app"] = "idle"
    /\ libs[l] \in {"rejected", "failed", "destroyed"}
    /\ _lib # l
    /\ libs' = [libs EXCEPT ![l] = "deleted"]
    /\ engine' = "down"
    /\ Observed(LibOp("Lib.__del__", l), "none")
    /\ UNCHANGED <<_lib, _quit, _has_thread, late_polls, pc, loc>>
    /\ UNCHANGED wrappers

\* lib.start(with_thread): _pjsua.start() with status err, then the thread
LibStart(l, with_thread, err) ==
    /\ pc["app"] = "idle"
    /\ libs[l] = "ok"
    /\ _lib = l
    /\ with_thread => pc["worker"] \in {"idle", "exited", "dead"}
    /\ IF err # 0
       THEN /\ Observed(LibOp("start", l), "Error")
            /\ UNCHANGED <<_has_thread, pc, libs>>
       ELSE /\ Observed(LibOp("start", l), "none")
            /\ libs' = [libs EXCEPT ![l] = "started"]
            /\ _has_thread' = [_has_thread EXCEPT ![l] = with_thread]
            /\ pc' = IF with_thread
                     THEN [pc EXCEPT !["worker"] = "thread_register"]
                     ELSE pc
    /\ UNCHANGED <<_lib, _quit, engine, late_polls, loc>>
    /\ UNCHANGED wrappers

\* lib.destroy(): if self._has_thread: self._quit = 1; loop = 0
DestroyBegin(l) ==
    /\ pc["app"] = "idle"
    /\ libs[l] \in {"ok", "started"}
    /\ _lib = l
    /\ loc' = [loc EXCEPT !["app"] = [arg |-> l, val |-> 0]]
    /\ late_polls' = 0
    /\ IF _has_thread[l]
       THEN /\ _quit' = [_quit EXCEPT ![l] = 1]
            /\ pc' = [pc EXCEPT !["app"] = "wait"]
       ELSE /\ pc' = [pc EXCEPT !["app"] = "teardown"]
            /\ UNCHANGED _quit
    /\ UNCHANGED <<_lib, libs, _has_thread, engine>>
    /\ UNCHANGED <<op, ret, raised, invoked, hangups, error, requests>>
    /\ UNCHANGED wrappers

\* a loop that waits for the worker without counting
DestroyWait_unbounded(l, loop) == _quit[l] # 2

\* while self._quit != 2 and loop < 400
DestroyWait(l, loop) == _quit[l] # 2 /\ loop < MaxLoop

\* the test of the loop of destroy(): it reads self._quit and goes on to
\* the body or leaves the loop; the worker thread can run before the body
DestroyTest ==
    /\ pc["app"] = "wait"
    /\ pc' = [pc EXCEPT !["app"] =
                 IF DestroyWait(loc["app"].arg, loc["app"].val)
                 THEN "poll" ELSE "teardown"]
    /\ UNCHANGED <<loc, op, ret, raised, invoked, hangups, error, requests>>
    /\ UNCHANGED <<_lib, libs, _quit, _has_thread, engine, late_polls>>
    /\ UNCHANGED wrappers

\* the body of the loop of destroy(): _pjsua.handle_events(50);
\* loop = loop + 1, whatever self._quit has become since the test
DestroyLoop ==
    /\ pc["app"] = "poll"
    /\ loc' = [loc EXCEPT !["app"].val = loc["app"].val + 1]
    /\ pc' = [pc EXCEPT !["app"] = "wait"]
    /\ Observed(LibOp("handle_events", loc["app"].arg), "none")
    /\ UNCHANGED <<_lib, libs, _quit, _has_thread, engine, late_polls>>
    /\ UNCHANGED wrappers

\* destroy(): _pjsua.destroy().  op.arg holds the iterations waited
DestroyEngine ==
    /\ pc["app"] = "teardown"
    /\ engine' = "down"
    /\ pc' = [pc EXCEPT !["app"] = "clear"]
    /\ Observed([LibOp("_pjsua.destroy", loc["app"].arg)
                    EXCEPT !.arg = <<loc["app"].val>>], "none")
    /\ UNCHANGED <<_lib, libs, _quit, _has_thread, late_polls, loc>>
    /\ UNCHANGED wrappers

\* destroy(): _lib = None, and return
DestroyClear ==
    /\ pc["app"] = "clear"
    /\ _lib' = None
    /\ pc' = [pc EXCEPT !["app"] = "idle"]
    /\ loc' = [loc EXCEPT !["app"] = NoLocals]
    /\ libs' = [libs EXCEPT ![loc["app"].arg] = "destroyed"]
    /\ Observed([LibOp("destroy", loc["app"].arg)
                    EXCEPT !.arg = <<loc["app"].val>>], "none")
    /\ UNCHANGED <<_quit, _has_thread, engine, late_polls>>
    /\ UNCHANGED wrappers

\* the worker thread ends with an exception
WorkerDies(ex) ==
    /\ pc' = [pc EXCEPT !["worker"] = "dead"]
    /\ Observed([NoOp EXCEPT !.name = "_worker_thread_main"], ex)

WorkerGoto(l) ==
    /\ pc' = [pc EXCEPT !["worker"] = l]
    /\ UNCHANGED <<op, ret, raised, invoked, hangups, error, requests>>

\* _worker_thread_main: thread_register and _lib._err_check
WorkerRegister(err) ==
    /\ pc["worker"] = "thread_register"
    /\ IF _lib = None THEN WorkerDies("AttributeError")
       ELSE IF err # 0 THEN WorkerDies("Error")
       ELSE WorkerGoto("test_quit")
    /\ UNCHANGED <<loc, _lib, libs, _quit, _has_thread, engine, late_polls>>
    /\ UNCHANGED wrappers

\* _worker_thread_main: while _lib._quit == 0
WorkerTest ==
    /\ pc["worker"] = "test_quit"
    /\ IF _lib = None THEN WorkerDies("AttributeError")
       ELSE IF _quit[_lib] = 0 THEN WorkerGoto("handle_events")
       ELSE WorkerGoto("set_quit")
    /\ UNCHANGED <<loc, _lib, libs, _quit, _has_thread, engine, late_polls>>
    /\ UNCHANGED wrappers

\* a worker that polls again without looking at _lib._quit
WorkerPoll_again == "handle_events"

\* where the worker goes after a poll: back to the test of the loop
WorkerPoll_next == "test_quit"

\* _worker_thread_main: _pjsua.handle_events(50)
WorkerPoll ==
    /\ pc["worker"] = "handle_events"
    /\ pc' = [pc EXCEPT !["worker"] = WorkerPoll_next]
    /\ late_polls' = IF _lib = None \/ _quit[_lib] # 0
                     THEN (IF late_polls < 2 THEN late_polls + 1 ELSE 2)
                     ELSE late_polls
    /\ Observed([NoOp EXCEPT !.name = "handle_events"], "none")
    /\ UNCHANGED <<loc, _lib, libs, _quit, _has_thread, engine>>
    /\ UNCHANGED wrappers

\* _worker_thread_main: _lib._quit = 2
WorkerSignal ==
    /\ pc["worker"] = "set_quit"
    /\ IF _lib = None
       THEN /\ WorkerDies("AttributeError")
            /\ UNCHANGED _quit
       ELSE /\ _quit' = [_quit EXCEPT ![_lib] = 2]
            /\ WorkerGoto("exited")
    /\ UNCHANGED <<loc, _lib, libs, _has_thread, engine, late_polls>>
    /\ UNCHANGED wrappers

DestroyStep ==
    \/ \E l \in LibIds : DestroyBegin(l)
    \/ DestroyTest
    \/ DestroyLoop
    \/ DestroyEngine
    \/ DestroyClear

WorkerStep ==
    \/ \E err \in ErrCodes : WorkerRegister(err)
    \/ WorkerTest
    \/ WorkerPoll
    \/ WorkerSignal

NextLib ==
    \/ \E err \in ErrCodes : LibInit(err)
    \/ \E l \in LibIds : LibDel(l)
    \/ \E l \in LibIds, with_thread \in BOOLEAN, err \in ErrCodes :
          LibStart(l, with_thread, err)
    \/ DestroyStep
    \/ WorkerStep

SpecLib == Init /\ [][NextLib]_vars

\* the life of a Lib up to and through destroy(). A finalizer runs only
\* between two operations of the application thread (LibDel needs
\* pc["app"] = "idle") and writes libs and engine only, which no step of
\* destroy() or of the worker reads, so it is left to SpecLib
NextDestroy ==
    \/ \E err \in ErrCodes : LibInit(err)
    \/ \E l \in LibIds, with_thread \in BOOLEAN, err \in ErrCodes :
          LibStart(l, with_thread, err)
    \/ DestroyStep
    \/ WorkerStep

\* the thread that called destroy() keeps running: each handle_events(50)
\* of its loop returns after its timeout
SpecLibFair == Init /\ [][NextDestroy]_vars /\ WF_vars(DestroyStep)

----------------------------------------------------------------------------
\* Properties of shutdown (under SpecLib)

\* the worker thread turns to a poll only from the test of its loop, and
\* only when the test found _quit of the current _lib unset
PollsOnlyAfterTest ==
    (pc'["worker"] = "handle_events" /\ pc["worker"] # "handle_events")
        => /\ pc["worker"] = "test_quit"
           /\ _lib # None
           /\ _quit[_lib] = 0

\* once the worker has seen _quit set it never polls: it signals and exits
NoPollOnceObserved ==
    pc["worker"] = "set_quit" => pc'["worker"] \in {"set_quit", "exited", "dead"}

\* the worker thread, its loop entered for a Lib that destroy() has given up
\* waiting for, goes on polling under a Lib constructed since: its test
\* reads _quit of the new object
PumpReadsLaterInstance ==
    /\ pc["worker"] = "test_quit"
    /\ op = [NoOp EXCEPT !.name = "handle_events"]
    /\ _lib = 2
    /\ _quit[2] = 0
    /\ _has_thread[1]
    /\ _quit[1] = 1
    /\ libs[1] = "destroyed"
    /\ late_polls = 0

WaitIsBounded ==
    op.name = "_pjsua.destroy" =>
        /\ op.arg[1] <= MaxLoop
        /\ ~_has_thread[op.o] => op.arg[1] = 0

InDestroy == pc["app"] \in {"wait", "poll", "teardown", "clear"}

\* destroy() has returned: the engine is torn down and _lib is cleared
DestroyReturned ==
    /\ op.name = "destroy"
    /\ pc["app"] = "idle"
    /\ engine = "down"
    /\ _lib = None

\* C14: destroy() calls the engine's destroy after at most 400 iterations of
\* its wait loop, after none when the library was started without a worker
\* thread, and it always gets there and returns with the engine torn down,
\* whether the worker thread signals, never started or died
C14_TeardownUnconditional ==
    /\ []WaitIsBounded
    /\ InDestroy ~> DestroyReturned

\* the worker thread died at thread registration; destroy() waited its 400
\* iterations without a signal, called the engine's destroy and returned
C14_Witness ==
    /\ op.name = "destroy"
    /\ op.arg = <<MaxLoop>>
    /\ pc["worker"] = "dead"
    /\ _quit[op.o] = 1
    /\ engine = "down"
    /\ _lib = None

----------------------------------------------------------------------------
\* Properties of the library instance (under SpecLib)

\* the Lib objects constructed successfully and not destroyed yet
ActiveLibs == {l \in LibIds : libs[l] \in {"ok", "started"}}

\* a step that is a call of Lib()
IsLibInit == op'.name = "Lib.__init__" /\ libs' # libs

\* there is at most one active Lib, and Lib.instance() returns it
OneInstance ==
    /\ ActiveLibs \subseteq {_lib}
    /\ _lib # None => _lib \in ActiveLibs

\* Lib() while an instance is active raises Error without calling the
\* engine's create and leaves _lib alone; Lib() without an active instance
\* calls create once, and becomes the instance unless create failed
Construction ==
    IsLibInit =>
        IF ActiveLibs # {}
        THEN raised' = "Error" /\ op'.arg = <<0>> /\ _lib' = _lib
        ELSE /\ op'.arg = <<1>>
             /\ raised' = "none" => _lib' = op'.o
             /\ raised' = "Error" => _lib' = None

----------------------------------------------------------------------------
\* Installing handlers

\* a set_callback that keeps a handler of the application once installed
set_callback_keep(k, o, cb) ==
    IF obj[k][o].cb[1] = "user" THEN obj[k][o].cb
    ELSE IF cb # None THEN <<"user", cb>> ELSE <<"default", o>>

\* set_callback(cb): if cb: self._cb = cb; else: self._cb = XCallback(self)
set_callback(k, o, cb) ==
    IF cb # None THEN <<"user", cb>> ELSE <<"default", o>>

SetCallbackName(k) ==
    CASE k = "call" -> "Call.set_callback"
      [] k = "account" -> "Account.set_callback"
      [] OTHER -> "Buddy.set_callback"

\* obj.set_callback(cb) on a Call, an Account or a Buddy
SetCallback(k, o, cb) ==
    /\ obj' = [obj EXCEPT ![k][o].cb = set_callback(k, o, cb)]
    /\ Observe([NoOp EXCEPT !.name = SetCallbackName(k), !.o = o,
                            !.arg = <<cb>>],
               <<>>, "none", <<>>, <<>>)
    /\ UNCHANGED <<call, account, buddy, buddy_by_uri, nobj, destroyed,
                   latest>>

\* Wrapper objects, their handlers, and notifications that reach them
NextCb ==
    \/ \E h \in Handles : CallInit(h, TRUE)
    \/ \E h \in Handles : AccountInit(h, TRUE)
    \/ \E h \in Handles : BuddyInit(h, <<"sip", "bob", "example.org", "", "">>)
    \/ \E k \in Kinds : \E o \in Constructed(k) :
          \E cb \in UserHandlers \cup {None} : SetCallback(k, o, cb)
    \/ \E h \in Handles : OnCallState(h)
    \/ \E h \in Handles, code \in TransferCodes :
          OnCallTransferRequest(h, code)
    \/ \E h \in Handles, cont \in ContFlags : OnCallTransferStatus(h, cont)
    \/ \E h \in Handles, r \in ReplaceResponses :
          OnCallReplaceRequest(h, r[1], r[2])
    \/ \E h \in Handles : OnRegState(h)
    \/ \E h \in Handles : OnBuddyState(h)

SpecCb == InitLib /\ [][NextCb]_vars

----------------------------------------------------------------------------
\* Properties of the installed handlers (under SpecCb)

SetCallbackNames ==
    {"Call.set_callback", "Account.set_callback", "Buddy.set_callback"}

\* set_callback(cb) makes cb the object's handler, or a default handler
\* bound to the object when cb is None, and touches no other object
InstallReplaces ==
    op'.name \in SetCallbackNames =>
        obj' = [obj EXCEPT ![KindOfOp(op'.name)][op'.o].cb =
                   IF op'.arg = <<None>> THEN <<"default", op'.o>>
                   ELSE <<"user", op'.arg[1]>>]

\* the object a notification of SpecCb is for, by the dictionary of its class
TargetKind ==
    CASE op.name = "on_reg_state" -> "account"
      [] op.name = "on_buddy_state" -> "buddy"
      [] OTHER -> "call"

TargetId ==
    CASE op.name = "on_reg_state" -> op.acc_id
      [] op.name = "on_buddy_state" -> op.buddy_id
      [] OTHER -> op.call_id

TargetObj ==
    IF has_key(DictOf(TargetKind), TargetId)
    THEN DictOf(TargetKind)[TargetId] ELSE None

\* a notification for a registered object invokes one handler, the one
\* installed on the object, and a response is that handler's answer
DispatchUsesInstalled ==
    ( /\ op.name \in CallScopedNames \cup {"on_reg_state", "on_buddy_state"}
      /\ TargetObj # None )
    => /\ Len(invoked) = 1
       /\ invoked[1].kind = TargetKind
       /\ invoked[1].obj = TargetObj
       /\ invoked[1].cb = obj[TargetKind][TargetObj].cb
       /\ op.name \in ResponseNames =>
             ret = HandlerAnswer(obj[TargetKind][TargetObj].cb,
                                 invoked[1].method, op.arg)

\* C16: set_callback replaces the object's handler (by a default handler
\* bound to the object for None), and a notification dispatched to an
\* object invokes exactly one handler, the installed one, whose answer the
\* dispatcher returns for the response-bearing notifications
C16_OneHandlerInstalled ==
    /\ []DispatchUsesInstalled
    /\ [][InstallReplaces]_vars

\* a transfer request the engine suggests to decline, answered 202 by the
\* application's handler 2 installed on the call, while an account carries
\* a default handler of its own, which only set_callback(None) installs
C16_Witness ==
    /\ op.name = "on_call_transfer_request"
    /\ op.arg = <<603>>
    /\ ret = <<202>>
    /\ Len(invoked) = 1
    /\ invoked[1].cb = <<"user", 2>>
    /\ nobj["account"] = 1
    /\ obj["account"][1].cb = <<"default", 1>>

----------------------------------------------------------------------------
\* Methods that call the engine.  A method of a wrapper object calls one
\* function of _pjsua and hands the status it returns to Lib._err_check;
\* the status err is the engine's to choose.

\* what _pjsua.player_get_conf_port and _pjsua.recorder_get_conf_port
\* return: the conference slot, negative for an id the engine does not know
PortSlots == {-1, 0, 1}

\* Lib._err_check(op_name, obj, err_code): the Error it raises, NoError
\* when it raises none
_err_check(op_name, o, err_code) ==
    IF err_code # 0
    THEN [op_name |-> op_name, obj |-> o, err_code |-> err_code]
    ELSE NoError

\* the methods of the shape
\*     err = _pjsua.fn(...); self._lib._err_check("name()", self, err)
\* op is the method, name the operation name it gives to _err_check
CheckedMethods ==
    { [op |-> "Call.answer", kind |-> "call",
       name |-> "answer()", fn |-> "call_answer"],
      [op |-> "Call.hangup", kind |-> "call",
       name |-> "hangup()", fn |-> "call_hangup"],
      [op |-> "Call.hold", kind |-> "call",
       name |-> "hold()", fn |-> "call_set_hold"],
      [op |-> "Account.set_registration", kind |-> "account",
       name |-> "set_registration()", fn |-> "acc_set_registration"],
      [op |-> "Buddy.subscribe", kind |-> "buddy",
       name |-> "subscribe()", fn |-> "buddy_subscribe_pres"],
      [op |-> "Lib.player_set_pos", kind |-> "lib",
       name |-> "player_set_pos()", fn |-> "player_set_pos"],
      [op |-> "Lib.player_destroy", kind |-> "lib",
       name |-> "player_destroy()", fn |-> "player_destroy"],
      [op |-> "Lib.recorder_destroy", kind |-> "lib",
       name |-> "recorder_destroy()", fn |-> "recorder_destroy"] }

\* the objects a method of class k can be called on
Receivers(k) ==
    IF k = "lib"
    THEN {l \in LibIds : libs[l] = "ok"}
    ELSE {o \in Constructed(k) : <<k, o>> \notin destroyed}

\* the end of a method call: it returns r unless chk is an Error, which it
\* raises; reqs are the functions of _pjsua it called and hu the
\* call_hangup requests among them
MethodEnd(o, r, chk, reqs, hu) ==
    /\ op' = o
    /\ ret' = IF chk = NoError THEN r ELSE <<>>
    /\ raised' = IF chk = NoError THEN "none" ELSE "Error"
    /\ error' = chk
    /\ requests' = reqs
    /\ invoked' = <<>>
    /\ hangups' = hu
    /\ UNCHANGED <<wrappers, pc, loc, libvars>>

\* a method that asks for no hangup
MethodOutcome(o, r, chk, reqs) == MethodEnd(o, r, chk, reqs, <<>>)

\* Call.hangup(code=603, ...): _pjsua.call_hangup(self._id, code, ...),
\* requested whatever status the engine answers
HangupRequests(m, o) ==
    IF m.op = "Call.hangup" THEN <<<<obj["call"][o].id, SC_DECLINE>>>>
    ELSE <<>>

MethodOp(name, o, v) == [NoOp EXCEPT !.name = name, !.o = o, !.arg = <<v>>]

\* a method of CheckedMethods on object o, the engine returning err
CheckedMethod(m, o, err) ==
    /\ o \in Receivers(m.kind)
    /\ MethodEnd(MethodOp(m.op, o, err), <<>>,
                 _err_check(m.name, <<m.kind, o>>, err), <<m.fn>>,
                 HangupRequests(m, o))

\* Lib.player_get_slot(player_id), the engine returning slot:
\*     slot = _pjsua.player_get_conf_port(player_id)
\*     self._err_check("player_get_slot()", self, -1, "Invalid player id")
\*     return slot
PlayerGetSlot(l, slot) ==
    /\ l \in Receivers("lib")
    /\ MethodOutcome(MethodOp("Lib.player_get_slot", l, slot), <<slot>>,
                     _err_check("player_get_slot()", <<"lib", l>>, -1),
                     <<"player_get_conf_port">>)

\* Lib.recorder_get_slot(rec_id), the engine returning slot:
\*     slot = _pjsua.recorder_get_conf_port(rec_id)
\*     self._err_check("recorder_get_slot()", self, -1, "Invalid recorder id")
\*     return slot
RecorderGetSlot(l, slot) ==
    /\ l \in Receivers("lib")
    /\ MethodOutcome(MethodOp("Lib.recorder_get_slot", l, slot), <<slot>>,
                     _err_check("recorder_get_slot()", <<"lib", l>>, -1),
                     <<"recorder_get_conf_port">>)

\* Buddy.send_pager(text): self.info() calls _pjsua.buddy_get_info for the
\* URI, then err = _pjsua.im_send(...) goes through _err_check
SendPager(o, err) ==
    /\ o \in Receivers("buddy")
    /\ MethodOutcome(MethodOp("Buddy.send_pager", o, err), <<>>,
                     _err_check("send_pager()", <<"buddy", o>>, err),
                     <<"buddy_get_info", "im_send">>)

\* A library instance, wrapper objects, and the methods called on them
NextOps ==
    \/ \E err \in ErrCodes : LibInit(err)
    \/ \E h \in Handles : CallInit(h, TRUE)
    \/ \E h \in Handles : AccountInit(h, TRUE)
    \/ \E h \in Handles : BuddyInit(h, <<"sip", "bob", "example.org", "", "">>)
    \/ \E m \in CheckedMethods, err \in ErrCodes :
          \E o \in Receivers(m.kind) : CheckedMethod(m, o, err)
    \/ \E l \in LibIds, slot \in PortSlots : PlayerGetSlot(l, slot)
    \/ \E l \in LibIds, slot \in PortSlots : RecorderGetSlot(l, slot)
    \/ \E o \in ObjIds, err \in ErrCodes : SendPager(o, err)

SpecOps == Init /\ [][NextOps]_vars

----------------------------------------------------------------------------
\* Properties of the methods that call the engine (under SpecOps)

SlotOps == {"Lib.player_get_slot", "Lib.recorder_get_slot"}

MethodOps ==
    {m.op : m \in CheckedMethods} \cup SlotOps \cup {"Buddy.send_pager"}

\* the operation name a method gives to _err_check
OpNameOf(name) ==
    CASE name = "Lib.player_get_slot" -> "player_get_slot()"
      [] name = "Lib.recorder_get_slot" -> "recorder_get_slot()"
      [] name = "Buddy.send_pager" -> "send_pager()"
      [] OTHER -> (CHOOSE m \in CheckedMethods : m.op = name).name

\* the class of the object a method is called on
ClassOf(name) ==
    CASE name \in SlotOps -> "lib"
      [] name = "Buddy.send_pager" -> "buddy"
      [] OTHER -> (CHOOSE m \in CheckedMethods : m.op = name).kind

\* the engine reported a failure to the last method: a status other than
\* 0, or no slot for the id
EngineFailed ==
    IF op.name \in SlotOps THEN op.arg[1] < 0 ELSE op.arg[1] # 0

\* the Error a failed method is to raise
ExpectedError ==
    [op_name |-> OpNameOf(op.name), obj |-> <<ClassOf(op.name), op.o>>,
     err_code |-> op.arg[1]]

RaisesIffFailed ==
    /\ raised \in {"none", "Error"}
    /\ (raised = "Error") <=> EngineFailed
    /\ (raised = "Error") => error = ExpectedError

\* the methods of CheckedMethods do as C17 says
CheckedMethodsConform ==
    op.name \in {m.op : m \in CheckedMethods} =>
        RaisesIffFailed /\ Len(requests) = 1

\* C17: a method that calls the engine calls it exactly once, and raises an
\* Error with the operation's name, the object the method was called on and
\* the engine's status exactly when the engine reported a failure
C17_OperationErrors ==
    op.name \in MethodOps => RaisesIffFailed /\ Len(requests) = 1

\* player_get_slot for a player the engine knows: one request, answered
\* with slot 1, and an Error with code -1 all the same
C17_Witness ==
    /\ op.name = "Lib.player_get_slot"
    /\ op.arg = <<1>>
    /\ requests = <<"player_get_conf_port">>
    /\ raised = "Error"
    /\ error = [op_name |-> "player_get_slot()", obj |-> <<"lib", op.o>>,
                err_code |-> -1]

\* C18: player_get_slot and recorder_get_slot, for an id the engine has a
\* slot for, return that slot and raise nothing
C18_SlotReturned ==
    (op.name \in SlotOps /\ op.arg[1] >= 0) =>
        raised = "none" /\ ret = op.arg

\* recorder_get_slot for a recorder with slot 0: nothing returned, an Error
\* raised
C18_Witness ==
    /\ op.name = "Lib.recorder_get_slot"
    /\ op.arg = <<0>>
    /\ ret = <<>>
    /\ raised = "Error"
    /\ error.op_name = "recorder_get_slot()"

----------------------------------------------------------------------------
\* Incoming calls on accounts and the handlers installed on them.  The
\* engine reports a call it knows: Call.__init__ finds the call's info.

NextAcc ==
    \/ \E h \in Handles : AccountInit(h, TRUE)
    \/ \E a \in Constructed("account") :
          \E cb \in UserHandlers \cup {None} : SetCallback("account", a, cb)
    \/ \E a \in Handles, h \in Handles, err \in ErrCodes :
          OnIncomingCall(a, h, TRUE, err)
    \/ \E c \in Constructed("call") : CallDel(c)
    \/ \E a \in Constructed("account") : AccountDel(a)

SpecAcc == InitLib /\ [][NextAcc]_vars

\* the Account an incoming call was dispatched to; _cb_on_incoming_call
\* leaves Lib.account and the accounts' handlers as they were
IncomingAccount == lookup_account(op.acc_id)

\* C19: an incoming call for a registered Account with the library's
\* handler is hung up by one call_hangup(call_id, 603) and no other; with a
\* handler of the application, on_incoming_call of that handler is invoked
\* once, the Call made for it carries the call's handle, and no hangup is
\* requested
C19_DefaultIncomingCallPolicy ==
    (op.name = "on_incoming_call" /\ IncomingAccount # None) =>
        /\ op.o \in Constructed("call")
        /\ obj["call"][op.o].id = op.call_id
        /\ invoked = <<[kind |-> "account", obj |-> IncomingAccount,
                        cb |-> obj["account"][IncomingAccount].cb,
                        method |-> "on_incoming_call"]>>
        /\ hangups = IF obj["account"][IncomingAccount].cb[1] = "user"
                     THEN <<>>
                     ELSE <<<<op.call_id, SC_DECLINE>>>>

\* an incoming call 1 on an account that never had a handler set: hung up
\* with 603
C19_Witness ==
    /\ op.name = "on_incoming_call"
    /\ op.call_id = 1
    /\ IncomingAccount # None
    /\ obj["account"][IncomingAccount].cb = <<"class", None>>
    /\ hangups = <<<<1, SC_DECLINE>>>>
    /\ raised = "none"

\* an incoming call on an account with the application's handler 1: the
\* handler invoked, the call kept
C19_WitnessHandler ==
    /\ op.name = "on_incoming_call"
    /\ IncomingAccount # None
    /\ Len(invoked) = 1
    /\ invoked[1].cb = <<"user", 1>>
    /\ hangups = <<>>
    /\ call[op.call_id] = op.o

----------------------------------------------------------------------------
\* State notifications for handles without an object (under SpecCb)

\* the last notification was a registration state for an account handle, or
\* a presence state for a buddy handle, that no object is registered for
UnknownStateTarget ==
    \/ op.name = "on_reg_state" /\ lookup_account(op.acc_id) = None
    \/ op.name = "on_buddy_state" /\ lookup_buddy(op.buddy_id, NoUri) = None

\* the step is such a notification: the handle has no object before it
DropsUnknown ==
    ( \/ op'.name = "on_reg_state" /\ lookup_account(op'.acc_id) = None
      \/ /\ op'.name = "on_buddy_state"
         /\ lookup_buddy(op'.buddy_id, NoUri) = None )
    => /\ UNCHANGED registry
       /\ UNCHANGED <<obj, nobj, destroyed>>
       /\ invoked' = <<>>
       /\ hangups' = <<>>
       /\ raised' = "none"
       /\ ret' = <<>>

\* C20: a registration-state notification for an account handle without a
\* registered Account, and a presence-state notification for a buddy handle
\* without a registered Buddy, invokes no handler, requests nothing of the
\* engine, leaves the registry as it was and returns normally
C20_UnknownStateDropped ==
    /\ [](UnknownStateTarget =>
            /\ invoked = <<>>
            /\ hangups = <<>>
            /\ raised = "none"
            /\ ret = <<>>)
    /\ [][DropsUnknown]_vars

\* a presence state for buddy handle 1 while only handle 0 has a Buddy, and
\* an Account is registered: dropped
C20_Witness ==
    /\ op.name = "on_buddy_state"
    /\ op.buddy_id = 1
    /\ DOMAIN buddy = {0}
    /\ DOMAIN account # {}
    /\ invoked = <<>>
    /\ raised = "none"

\* a registration state for account handle 0 while only handle 1 has an
\* Account: dropped
C20_WitnessReg ==
    /\ op.name = "on_reg_state"
    /\ op.acc_id = 0
    /\ DOMAIN account = {1}
    /\ invoked = <<>>
    /\ raised = "none"

----------------------------------------------------------------------------
\* Deregistration of buddies (under Spec)

BuddyDeregistrations == {"_disassociate_buddy", "Buddy.__del__"}

\* the (user, host) entry is never removed: _disassociate_buddy probes
\* buddy_by_uri with the URI, and the keys are (user, host) pairs
UriEntriesStay ==
    \A key \in DOMAIN buddy_by_uri : key \in DOMAIN buddy_by_uri'

\* C21: after the deregistration of a buddy, neither the lookup by its
\* handle nor the lookup by its URI returns that buddy
C21_BuddyUnregisterRemovesBoth ==
    op.name \in BuddyDeregistrations =>
        /\ lookup_buddy(obj["buddy"][op.o].id, NoUri) # op.o
        /\ lookup_buddy(NoBuddy, obj["buddy"][op.o].uri) # op.o

\* the destructor of the buddy bob@example.com ran: its handle has no entry,
\* and the lookup by its URI returns it still
C21_Witness ==
    /\ op.name = "Buddy.__del__"
    /\ obj["buddy"][op.o].uri = <<"sip", "bob", "example.com", "", "">>
    /\ ~has_key(buddy, obj["buddy"][op.o].id)
    /\ <<"buddy", op.o>> \in destroyed
    /\ buddy_by_uri[<<"bob", "example.com">>] = op.o

----------------------------------------------------------------------------
\* Registration on one thread during deregistration on the other.  The
\* engine reuses the handle of a call that ended for a new call to a
\* registered account, and the worker thread, in _cb_on_incoming_call,
\* constructs the new Call while the application's thread is in
\* _disassociate_call for the old one.  No lock is held: the application's
\* thread runs between any two statements of the dispatch.

\* Account(lib, acc_id) on the application's thread
AppAccountInit(acc_id) ==
    /\ pc["app"] = "idle"
    /\ Room("account")
    /\ NewAccount(acc_id, TRUE)

IncomingOp(acc_id, call_id) ==
    [NoOp EXCEPT !.name = "on_incoming_call", !.acc_id = acc_id,
                 !.call_id = call_id]

\* the module's _cb_on_incoming_call(acc_id, call_id, rdata) on the worker
\* thread, a statement at a time: _lib._cb_on_incoming_call, and in
\* _lookup_account self.account.has_key(acc_id)
WorkerIncomingHasKey(acc_id, call_id) ==
    /\ pc["worker"] = "idle"
    /\ MakesCall(acc_id) => nobj["call"] < MaxObj
    /\ IF _lib = None
       THEN Complete("worker", IncomingOp(acc_id, call_id), AttributeError)
       ELSE IF has_key(account, acc_id)
       THEN Goto("worker", "acc_getitem", [arg |-> call_id, val |-> acc_id])
       ELSE Goto("worker", "reject", [arg |-> call_id, val |-> acc_id])
    /\ UNCHANGED wrappers

\* in _lookup_account: self.account[acc_id]
WorkerIncomingGetItem ==
    /\ pc["worker"] = "acc_getitem"
    /\ LET call_id == loc["worker"].arg
           acc_id == loc["worker"].val
       IN  IF has_key(account, acc_id)
           THEN Goto("worker", "associate",
                     [arg |-> call_id, val |-> account[acc_id]])
           ELSE Complete("worker", IncomingOp(acc_id, call_id), KeyError)
    /\ UNCHANGED wrappers

\* Call(self, call_id), in Call.__init__: self._lib._associate_call(call_id,
\* self)
WorkerIncomingAssociate ==
    /\ pc["worker"] = "associate"
    /\ LET call_id == loc["worker"].arg
           c == nobj["call"] + 1
       IN  /\ nobj' = [nobj EXCEPT !["call"] = c]
           /\ obj' = [obj EXCEPT !["call"][c] =
                         [id |-> call_id, cb |-> <<"default", c>>,
                          uri |-> NoUri]]
           /\ call' = associate_call(call_id, c)
           /\ latest' = Registered("call", call_id, c)
           /\ Goto("worker", "info", [arg |-> c, val |-> loc["worker"].val])
    /\ UNCHANGED <<account, buddy, buddy_by_uri, destroyed>>

\* in Call.__init__: self.info(), of a call the engine knows
WorkerIncomingInfo ==
    /\ pc["worker"] = "info"
    /\ Goto("worker", "handler", loc["worker"])
    /\ UNCHANGED wrappers

\* acc._cb.on_incoming_call(call)
WorkerIncomingHandler ==
    /\ pc["worker"] = "handler"
    /\ LET c == loc["worker"].arg
           acc == loc["worker"].val
           call_id == obj["call"][c].id
       IN  Complete("worker",
                    [IncomingOp(obj["account"][acc].id, call_id)
                        EXCEPT !.o = c],
                    IncomingCallHandler(acc, call_id, 0))
    /\ UNCHANGED wrappers

\* else: _pjsua.call_hangup(call_id, 603, None, None)
WorkerIncomingReject ==
    /\ pc["worker"] = "reject"
    /\ Complete("worker",
                IncomingOp(loc["worker"].val, loc["worker"].arg),
                RejectIncomingCall(loc["worker"].arg))
    /\ UNCHANGED wrappers

NextRace ==
    \/ NextThreads
    \/ \E a \in Handles : AppAccountInit(a)
    \/ \E a \in Handles, h \in Handles : WorkerIncomingHasKey(a, h)
    \/ WorkerIncomingGetItem
    \/ WorkerIncomingAssociate
    \/ WorkerIncomingInfo
    \/ WorkerIncomingHandler
    \/ WorkerIncomingReject

SpecRace == InitLib /\ [][NextRace]_vars

\* C22: once _disassociate_call has returned, every handle holds the call
\* registered for it last and not deregistered since, also when that call
\* was registered while the deregistration of an older call was under way
C22_StaleUnregisterKeepsNewer ==
    pc["app"] = "idle" =>
        \A h \in DOMAIN latest["call"] :
            has_key(call, h) /\ call[h] = latest["call"][h]

\* _disassociate_call for call 1 returned after call 2 was registered under
\* the same handle, and the handle has no entry
C22_Witness ==
    /\ op.name = "_disassociate_call"
    /\ op.o = 1
    /\ pc["app"] = "idle"
    /\ raised = "none"
    /\ nobj["call"] = 2
    /\ obj["call"][2].id = op.call_id
    /\ has_key(latest["call"], op.call_id)
    /\ latest["call"][op.call_id] = 2
    /\ ~has_key(call, op.call_id)

----------------------------------------------------------------------------
\* Methods that create wrapper objects: the engine is asked for a new
\* account, call or buddy and returns a status err and a handle h; the
\* status goes through _err_check and then the wrapper is constructed.

\*     err, id = _pjsua.fn(...); _err_check("name()", self, err)
\*     return Class(lib, id)
\* recv is the class of the object the method is called on
CreationMethods ==
    { [op |-> "Lib.create_account", recv |-> "lib", kind |-> "account",
       name |-> "create_account()", pre |-> <<"acc_config_default">>,
       fn |-> "acc_add"],
      [op |-> "Lib.create_account_for_transport", recv |-> "lib",
       kind |-> "account", name |-> "create_account_for_transport()",
       pre |-> <<>>, fn |-> "acc_add_local"],
      [op |-> "Account.make_call", recv |-> "account", kind |-> "call",
       name |-> "make_call()", pre |-> <<>>, fn |-> "call_make_call"],
      [op |-> "Account.add_buddy", recv |-> "account", kind |-> "buddy",
       name |-> "add_buddy()", pre |-> <<"buddy_config_default">>,
       fn |-> "buddy_add"] }

\* the functions of _pjsua a creation method calls up to its _err_check:
\* acc_config._cvt_to_pjsua() and add_buddy start from the engine's default
\* configuration (pre), then comes the function that creates (fn)
CreationRequests(m) == m.pre \o <<m.fn>>

\* the functions of _pjsua the constructor of class k calls: info() asks
\* for the engine's record; _associate_buddy asks for it too and parses
\* its URI before Buddy.__init__ asks again
ConstructorRequests(k) ==
    CASE k = "call" -> <<"call_get_info">>
      [] k = "account" -> <<"acc_get_info">>
      [] OTHER -> <<"buddy_get_info", "parse_simple_uri", "buddy_get_info">>

\* a creation method that goes on whatever the engine's status
CreationFails_never(err) == FALSE

\* _err_check raises: the status is not 0
CreationFails(err) == err # 0

\* op.arg is <<receiver, status>>, and the handle is in the field of its kind
CreateOp(m, r, err, h, uri) ==
    [NoOp EXCEPT !.name = m.op, !.arg = <<r, err>>, !.uri = uri,
                 !.call_id = IF m.kind = "call" THEN h ELSE NoCall,
                 !.acc_id = IF m.kind = "account" THEN h ELSE NoCall,
                 !.buddy_id = IF m.kind = "buddy" THEN h ELSE NoCall]

\* the handler a new object of class k has: Call.__init__ and Buddy.__init__
\* assign self._cb, Account.__init__ assigns a local name
InitialHandler(k, o) ==
    IF k = "account" THEN <<"class", None>> ELSE <<"default", o>>

\* the Error of info() for a handle the engine does not know
InfoError(k, o) ==
    [op_name |-> IF k = "call" THEN "info" ELSE "info()", obj |-> <<k, o>>,
     err_code |-> -1]

\* return Class(lib, h): the constructor registers the object and then asks
\* for its info(), which raises when the engine does not know h
Construct(m, r, err, h, uri, valid) ==
    /\ CanConstruct
    /\ LET k == m.kind
           o == nobj[k] + 1
       IN  /\ nobj' = [nobj EXCEPT ![k] = o]
           /\ obj' = [obj EXCEPT ![k][o] =
                         [id |-> h, cb |-> InitialHandler(k, o), uri |-> uri]]
           /\ call' = IF k = "call" THEN associate_call(h, o) ELSE call
           /\ account' = IF k = "account" THEN associate_account(h, o)
                         ELSE account
           /\ buddy' = IF k = "buddy" THEN associate_buddy(h, o, uri).buddy
                       ELSE buddy
           /\ buddy_by_uri' =
                 IF k = "buddy" THEN associate_buddy(h, o, uri).buddy_by_uri
                 ELSE buddy_by_uri
           /\ latest' = Registered(k, h, o)
           /\ destroyed' = IF valid THEN destroyed
                           ELSE destroyed \cup {<<k, o>>}
           /\ op' = [CreateOp(m, r, err, h, uri) EXCEPT !.o = o]
           /\ ret' = IF valid THEN <<o>> ELSE <<>>
           /\ raised' = IF valid THEN "none" ELSE "Error"
           /\ error' = IF valid THEN NoError ELSE InfoError(k, o)
    /\ requests' = CreationRequests(m) \o ConstructorRequests(m.kind)
    /\ invoked' = <<>>
    /\ hangups' = <<>>
    /\ UNCHANGED <<pc, loc, libvars>>

\* method m called on object r; the engine answers (err, h), and knows h
\* afterwards or not (valid); a buddy's info() never raises
Create(m, r, err, h, uri, valid) ==
    /\ r \in Receivers(m.recv)
    /\ (m.kind = "buddy") = (uri # NoUri)
    /\ m.kind = "buddy" => valid
    /\ IF CreationFails(err)
       THEN MethodOutcome(CreateOp(m, r, err, h, uri), <<>>,
                          _err_check(m.name, <<m.recv, r>>, err),
                          CreationRequests(m))
       ELSE Construct(m, r, err, h, uri, valid)

\* A library instance, the objects created through it, and the state
\* notifications and incoming calls the engine raises for them
NextCreate ==
    \/ LibInit(0)
    \/ \E m \in CreationMethods, r \in ObjIds \cup LibIds, err \in ErrCodes,
          h \in Handles, valid \in BOOLEAN,
          uri \in {<<"sip", "bob", "example.com", "", "">>, NoUri} :
            Create(m, r, err, h, uri, valid)
    \/ \E a \in Handles, h \in Handles, err \in ErrCodes :
          OnIncomingCall(a, h, TRUE, err)
    \/ \E h \in Handles : OnRegState(h)
    \/ \E h \in Handles : OnCallState(h)
    \/ \E h \in Handles : OnBuddyState(h)

SpecCreate == Init /\ [][NextCreate]_vars

----------------------------------------------------------------------------
\* Properties of the creation methods (under SpecCreate)

CreationOps == {m.op : m \in CreationMethods}

\* the class of the object the last operation made
MadeKind ==
    IF op.name = "on_incoming_call" THEN "call"
    ELSE (CHOOSE m \in CreationMethods : m.op = op.name).kind

\* the handle the engine gave for it
MadeHandle ==
    CASE MadeKind = "call" -> op.call_id
      [] MadeKind = "account" -> op.acc_id
      [] OTHER -> op.buddy_id

LookupOf(k, h) ==
    CASE k = "call" -> lookup_call(h)
      [] k = "account" -> lookup_account(h)
      [] OTHER -> lookup_buddy(h, NoUri)

\* a creation method returned an object, or an incoming call was delivered
\* to a handler of a known account
MadeObject ==
    /\ op.name \in CreationOps \cup {"on_incoming_call"}
    /\ raised = "none"
    /\ op.o # None

\* the lookup of the new handle returns the new object, which is the object
\* the method returned
RegisteredAtOnce ==
    MadeObject =>
        /\ LookupOf(MadeKind, MadeHandle) = op.o
        /\ op.name \in CreationOps => ret = <<op.o>>

\* the state notification for the class and handle of the object just made
NotifiesMade ==
    CASE MadeKind = "call" ->
            op'.name = "on_call_state" /\ op'.call_id = MadeHandle
      [] MadeKind = "account" ->
            op'.name = "on_reg_state" /\ op'.acc_id = MadeHandle
      [] OTHER ->
            op'.name = "on_buddy_state" /\ op'.buddy_id = MadeHandle

\* the notification that follows reaches the handler of the new object
ReachesMade ==
    (MadeObject /\ NotifiesMade) =>
        /\ Len(invoked') = 1
        /\ invoked'[1].kind = MadeKind
        /\ invoked'[1].obj = op.o
        /\ invoked'[1].cb = obj[MadeKind][op.o].cb

\* C23: when create_account, create_account_for_transport, make_call,
\* add_buddy or the dispatch of an incoming call on a known account succeeds
\* with handle h, the object it returned or delivered is the one the lookup
\* of h returns, and a state notification for h right afterwards invokes
\* the handler of that object
C23_ConstructionRegisters ==
    /\ []RegisteredAtOnce
    /\ [][ReachesMade]_vars

\* add_buddy returned the second wrapper object made, a Buddy on handle 1,
\* and the state notification for buddy 1 reached it
C23_Witness ==
    /\ op.name = "on_buddy_state"
    /\ op.buddy_id = 1
    /\ nobj["account"] = 1
    /\ nobj["buddy"] = 1
    /\ lookup_buddy(1, NoUri) = 1
    /\ Len(invoked) = 1
    /\ invoked[1].obj = 1
    /\ invoked[1].kind = "buddy"
    /\ requests = <<"buddy_config_default", "buddy_add", "buddy_get_info",
                    "parse_simple_uri", "buddy_get_info">>

\* the step is a creation method to which the engine returned a status
\* other than 0: Error is raised, no object is made, the dictionaries stay
FailedCreationKeeps ==
    (op'.name \in CreationOps /\ op'.arg[2] # 0) =>
        /\ raised' = "Error"
        /\ error'.err_code = op'.arg[2]
        /\ ret' = <<>>
        /\ nobj' = nobj
        /\ obj' = obj
        /\ UNCHANGED registry

\* C24: when the engine returns a status other than success to
\* create_account, create_account_for_transport, make_call or add_buddy, the
\* method raises Error, constructs no wrapper object and leaves the three
\* handle dictionaries and the URI-key dictionary as they were
C24_FailedCreationLeavesState ==
    [][FailedCreationKeeps]_vars

\* make_call on the registered account 1 failed with status 1: Error for
\* make_call(), no Call made, the account still the only entry
C24_Witness ==
    /\ op.name = "Account.make_call"
    /\ op.arg = <<1, 1>>
    /\ raised = "Error"
    /\ error = [op_name |-> "make_call()", obj |-> <<"account", 1>>,
                err_code |-> 1]
    /\ nobj["call"] = 0
    /\ call = EmptyDict
    /\ DOMAIN account # {}

----------------------------------------------------------------------------
\* Constructors that raise (under Spec)

\* C25: when Call.__init__ or Account.__init__ raises because the engine
\* does not know the handle, the dictionary of that class does not hold the
\* object whose construction failed
C25_FailedConstructionLeavesNoEntry ==
    /\ (op.name = "Call.__init__" /\ raised = "Error")
          => lookup_call(op.call_id) # op.o
    /\ (op.name = "Account.__init__" /\ raised = "Error")
          => lookup_account(op.acc_id) # op.o

\* Account(lib, 1) raised while account 1 had an Account already: the entry
\* is now the object that was never handed to the caller
C25_Witness ==
    /\ op.name = "Account.__init__"
    /\ op.acc_id = 1
    /\ raised = "Error"
    /\ op.o = 2
    /\ obj["account"][1].id = 1
    /\ lookup_account(1) = 2
    /\ <<"account", 2>> \in destroyed

----------------------------------------------------------------------------
\* The three classes side by side: objects of each class are registered and
\* deregistered, up to MaxPerKind of a class, under the same handles.

NextKinds ==
    \/ \E h \in Handles : Room("call") /\ NewCall(h, TRUE)
    \/ \E h \in Handles : Room("account") /\ NewAccount(h, TRUE)
    \/ \E h \in Handles :
          Room("buddy") /\ NewBuddy(h, <<"sip", "bob", "example.com", "", "">>)
    \/ DisassociateStep

SpecKinds == InitLib /\ [][NextKinds]_vars

\* each lookup by handle reads the dictionary of its own class only
LookupsReadOwnMap ==
    \A h \in Handles :
        /\ lookup_call(h) = IF has_key(call, h) THEN call[h] ELSE None
        /\ lookup_account(h) = IF has_key(account, h) THEN account[h]
                               ELSE None
        /\ lookup_buddy(h, NoUri) = IF has_key(buddy, h) THEN buddy[h]
                                    ELSE None

\* a registration or deregistration of one class leaves the dictionaries
\* and the lookups of the other classes as they were
KindFrame ==
    /\ KindOfOp(op'.name) = "call"
          => UNCHANGED <<account, buddy, buddy_by_uri>>
    /\ KindOfOp(op'.name) = "account"
          => UNCHANGED <<call, buddy, buddy_by_uri>>
    /\ KindOfOp(op'.name) = "buddy"
          => UNCHANGED <<call, account>>

\* C26: registration, deregistration and lookup of one class neither read
\* nor change the dictionaries of the other two classes, so one handle can
\* carry a call, an account and a buddy at once
C26_NamespacesIndependent ==
    /\ []LookupsReadOwnMap
    /\ [][KindFrame]_vars

\* handle 0 carries a Call, an Account and a Buddy at once, the Account
\* registered last
C26_Witness ==
    /\ op.name = "Account.__init__"
    /\ lookup_call(0) = 1
    /\ lookup_account(0) = 1
    /\ lookup_buddy(0, NoUri) = 1
    /\ {<<"call", 1>>, <<"account", 1>>, <<"buddy", 1>>} \cap destroyed = {}

----------------------------------------------------------------------------
\* Library instances one after the other, and the wrapper objects made
\* while one is active.  Lib.call, Lib.account, Lib.buddy and
\* Lib.buddy_by_uri are attributes of the class: every instance reads and
\* writes the same four dictionaries.

\* the application has an instance and is not inside destroy()
LibActive == _lib # None /\ pc["app"] = "idle"

NextLife ==
    \/ LibInit(0)
    \/ \E l \in LibIds : DestroyBegin(l)
    \/ DestroyEngine
    \/ DestroyClear
    \/ \E h \in Handles : LibActive /\ AccountInit(h, TRUE)
    \/ \E h \in Handles : LibActive /\ CallInit(h, TRUE)
    \/ \E h \in Handles : LibActive /\ OnRegState(h)
    \/ \E h \in Handles : LibActive /\ OnCallState(h)

SpecLife == Init /\ [][NextLife]_vars

\* Lib objects whose destroy() has returned
DestroyedLibs == {l \in LibIds : libs[l] \in {"destroyed", "deleted"}}

\* C27: a Lib constructed after the destroy() of another starts with empty
\* call, account, buddy and URI-key dictionaries
C27_NewLibStartsEmpty ==
    ( /\ op.name = "Lib.__init__"
      /\ raised = "none"
      /\ DestroyedLibs # {} )
    => /\ call = EmptyDict
       /\ account = EmptyDict
       /\ buddy = EmptyDict
       /\ buddy_by_uri = EmptyDict

\* Lib 2 was constructed after destroy() of Lib 1, and Lib.account holds
\* the Account made for account 0 of Lib 1
C27_Witness ==
    /\ op.name = "Lib.__init__"
    /\ op.o = 2
    /\ raised = "none"
    /\ libs[1] = "destroyed"
    /\ _lib = 2
    /\ nobj["account"] = 1
    /\ lookup_account(0) = 1

\* and a registration state the engine of Lib 2 reports for its account 0
\* goes to the handler of that Account
C27_WitnessDispatch ==
    /\ op.name = "on_reg_state"
    /\ op.acc_id = 0
    /\ _lib = 2
    /\ libs[1] = "destroyed"
    /\ nobj["account"] = 1
    /\ nobj["call"] = 1
    /\ Len(invoked) = 1
    /\ invoked[1].obj = 1

----------------------------------------------------------------------------
\* The worker thread after destroy() (under SpecLib)

\* the last step was the worker thread's _pjsua.handle_events(50)
WorkerPolled == op.name = "handle_events" /\ op.o = None

\* C28: once destroy() has called the engine's destroy and cleared _lib,
\* the worker thread neither calls handle_events nor evaluates _lib._quit
C28_NoEngineCallAfterTeardown ==
    /\ WorkerPolled => _lib # None
    /\ op.name = "_worker_thread_main" => raised # "AttributeError"

\* destroy() of Lib 1 returned after its 400 iterations with _quit still 1,
\* and then the worker thread polled the engine that is gone
C28_Witness ==
    /\ WorkerPolled
    /\ engine = "down"
    /\ _lib = None
    /\ libs[1] = "destroyed"
    /\ _quit[1] = 1
    /\ pc["app"] = "idle"

\* or it went back to its loop test and raised AttributeError on None._quit
C28_WitnessAccess ==
    /\ op.name = "_worker_thread_main"
    /\ raised = "AttributeError"
    /\ pc["worker"] = "dead"
    /\ _lib = None
    /\ libs[1] = "destroyed"

----------------------------------------------------------------------------
\* Finalizers of Lib objects (under SpecLib)

\* the step is Lib.__del__, which calls _pjsua.destroy()
IsLibDel == op'.name = "Lib.__del__" /\ libs' # libs

\* the finalizer runs for a Lib that created the engine and whose destroy()
\* has not torn it down already
DelOnlyOwnEngine ==
    IsLibDel => libs[op'.o] \notin {"rejected", "failed", "destroyed"}

\* no finalizer takes the engine from under the active instance
DelKeepsActiveEngine ==
    (IsLibDel /\ _lib # None) => engine' = engine

\* C29: the engine's destroy is called only for a Lib that created the
\* engine, and once for each: the finalizer of a Lib rejected as second
\* instance and the finalizer of a Lib already destroyed call it no more
C29_TeardownOncePerCreate ==
    [][DelOnlyOwnEngine /\ DelKeepsActiveEngine]_vars

\* seen in the states: an active instance has its engine
ActiveHasEngine ==
    _lib # None => engine = "up"

\* Lib 2 was rejected as second instance; its finalizer ran and the engine
\* of the active Lib 1 is gone
C29_Witness ==
    /\ op.name = "Lib.__del__"
    /\ op.o = 2
    /\ libs[2] = "deleted"
    /\ _lib = 1
    /\ libs[1] \in {"ok", "started"}
    /\ engine = "down"

----------------------------------------------------------------------------
\* The handlers of new objects (under Spec, where set_callback is not called)

\* the object a handler refers back to (handler.call, handler.account,
\* handler.buddy): the object it was made for, None for the handler that is
\* the class attribute Account._cb
BackReference(cb) == cb[2]

\* two objects of class k with the same handler instance
SharedHandler(k) ==
    \E o1 \in Constructed(k), o2 \in Constructed(k) :
        o1 # o2 /\ obj[k][o1].cb = obj[k][o2].cb

\* C30: a Call, an Account or a Buddy on which set_callback was not called
\* has a default handler whose back-reference is the object itself, and no
\* two objects have the same handler instance
C30_OwnDefaultHandler ==
    \A k \in Kinds :
        /\ \A o \in Constructed(k) :
              /\ obj[k][o].cb[1] = "default"
              /\ BackReference(obj[k][o].cb) = o
        /\ ~SharedHandler(k)

\* two Accounts were constructed: both have the handler of the class, whose
\* back-reference is None
C30_Witness ==
    /\ op.name = "Account.__init__"
    /\ raised = "none"
    /\ nobj["account"] = 2
    /\ obj["account"][1].cb = obj["account"][2].cb
    /\ BackReference(obj["account"][2].cb) = None

\* Calls and Buddies do have a handler of their own
C30_CallsAndBuddies ==
    \A k \in {"call", "buddy"} :
        /\ \A o \in Constructed(k) : obj[k][o].cb = <<"default", o>>
        /\ ~SharedHandler(k)

====
